---- MODULE Spec2Model ----
(***************************************************************************)
(* Verification model of the multi-venue arbitrage bot:                    *)
(*   utils/rate_limiter.py     RateLimiter                (SpecRL)         *)
(*   cex/manager.py            CEXManager.get_all_prices  (SpecPrices)     *)
(*   utils/liquidity_analyzer  analyze_token_liquidity    (SpecLiq)        *)
(*   arbitrage_engine.py       spread / process_token_batch                *)
(*                                           (SpecSpread, SpecEngine)      *)
(*   cex/websocket_manager.py  WebSocketManager           (SpecWS)         *)
(*   cex/base.py               BaseCEX._retry_request     (SpecRetry)      *)
(*   arbitrage_engine.py       run / stop        (SpecRun, SpecEngineStop) *)
(*   cex/binance.py            price calls, HTTP requests                  *)
(*                                         (SpecAdapterCall, SpecAdapter)  *)
(*   cex/manager.py            get_all_exchange_symbols   (SpecSymbols)    *)
(*   utils/rate_limiter.py     one limiter per adapter    (SpecLimiters)   *)
(*   arbitrage_engine.py       concurrent stop() calls    (SpecStops)      *)
(* Each specification drives one component; the variables of the other     *)
(* components stay at their initial value.                                 *)
(***************************************************************************)
EXTENDS Integers, Sequences, FiniteSets, TLC

VARIABLES
    \* ---- RateLimiter ----
    now,          \* time.time(), in whole seconds
    requests,     \* RateLimiter.requests: key -> list of admitted timestamps
    callers,      \* one record per task that calls acquire()
    calls,        \* number of acquire() calls made so far
    \* ---- functions checked on drawn inputs ----
    fnIn,         \* the arguments / collaborator outcomes of the call
    fnOut,        \* what the call returned, None before it has run
    \* ---- ArbitrageEngine.process_token_batch ----
    ePc,          \* where the batch loop stands
    eTok,         \* index in `tokens` of the token being processed
    ePrices,      \* prices = get_all_prices(token) of that token
    eDexWorld,    \* what DexScreener.get_token_data yields for that token
    eI, eJ,       \* positions of the two nested pair loops
    eOpps,        \* the local counter `opportunities`
    eDb,          \* rows log_opportunity wrote for that token
    eDbRows,      \* number of rows in the opportunities table
    eNotes,       \* notifier.send_message calls made for that token
    eCmp,         \* the last pair comparison and whether it was flagged
    \* ---- WebSocketManager ----
    wsConn,       \* connections: venue -> "absent" | "open" | "closed"
    wsSubKeys,    \* the venues that are keys of self.subscriptions
    wsSubs,       \* subscriptions: venue -> set of symbols
    wsCallbacks,  \* callbacks: venue -> symbol -> list of callbacks
    wsShutdown,   \* _shutdown_event.is_set()
    wsRunning,    \* self.running
    wsStop,       \* the stop() call in progress: where it stands, its dict iterator
    wsTask,       \* venue -> position of its _maintain_connection task
    wsIt,         \* venue -> iterator of the replay loop over the set
    wsSnap,       \* venue -> subscription set when the connection was made
    wsReplaySent, \* venue -> symbol -> subscribes the replay sent on the connection
    wsWire,       \* venue -> symbol -> messages sent on the connection
    wsOps,        \* number of subscribe() / unsubscribe() calls so far
    wsConnects,   \* venue -> number of connections established so far
    wsDelivered,  \* the last inbound message handled and the callbacks it reached
    \* ---- ArbitrageEngine.run / stop and the shutdown handler of main.py ----
    rPc,          \* the await at which run() is suspended
    rRunning,     \* self._running
    rShutdown,    \* self._shutdown_event.is_set()
    rSleep,       \* seconds left of the asyncio.sleep run() is in
    rTokens,      \* len(tokens) of the current cycle
    rI,           \* the index i of the batch loop
    rJ,           \* tokens of the current batch whose processing was attempted
    rFailed,      \* whether the processing of a token of the current batch raised
    rExit,        \* why run() left its loop or its startup
    rStop,        \* the stop() call of run()'s finally clause
    sPc           \* where shutdown_signal_handler stands

rlVars == <<now, requests, callers, calls>>

fnVars == <<fnIn, fnOut>>

engVars == <<ePc, eTok, ePrices, eDexWorld, eI, eJ, eOpps, eDb, eDbRows, eNotes, eCmp>>

wsVars == <<wsConn, wsSubKeys, wsSubs, wsCallbacks, wsShutdown, wsRunning, wsStop,
            wsTask, wsIt, wsSnap, wsReplaySent, wsWire, wsOps, wsConnects, wsDelivered>>

runVars == <<rPc, rRunning, rShutdown, rSleep, rTokens, rI, rJ, rFailed, rExit, rStop, sPc>>

vars == <<now, requests, callers, calls, fnIn, fnOut,
          ePc, eTok, ePrices, eDexWorld, eI, eJ, eOpps, eDb, eDbRows, eNotes, eCmp,
          wsConn, wsSubKeys, wsSubs, wsCallbacks, wsShutdown, wsRunning, wsStop,
          wsTask, wsIt, wsSnap, wsReplaySent, wsWire, wsOps, wsConnects, wsDelivered,
          rPc, rRunning, rShutdown, rSleep, rTokens, rI, rJ, rFailed, rExit, rStop, sPc>>

\* Outcomes of a call: it returned None, it raised, or it returned x.
None == [kind |-> "none"]

Raise == [kind |-> "raise"]

Val(x) == [kind |-> "value", v |-> x]

\* No key (a caller that is not inside acquire()).
NoKey == "-"

(***************************************************************************)
(* RateLimiter (utils/rate_limiter.py)                                     *)
(***************************************************************************)

\* Limits of the modelled keys, scaled down from the configured ones.
MarketMax == 2
MarketWindow == 2
PrivateMax == 3
PrivateWindow == 3
IpMax == 4
IpWindow == 3
DefaultMarketMax == 1
DefaultMarketWindow == 1
MaxTime == 3
MaxWeight == 2
MaxCalls == 5

Callers == {"c1", "c2"}

\* Keys a caller passes to acquire(): a configured market key, a configured
\* private key and a key that is not configured.
CallKeys == {"okx_market", "okx_private", "foo_market"}

Keys == CallKeys \cup {"okx_ip"}

\* self.rate_limits / self.ip_rate_limits, with the fallback of
\* _acquire_limit for keys that are in neither table.
RateLimitOf(key) ==
    CASE key = "okx_market"  -> [max_requests |-> MarketMax, time_window |-> MarketWindow]
      [] key = "okx_private" -> [max_requests |-> PrivateMax, time_window |-> PrivateWindow]
      [] key = "okx_ip"      -> [max_requests |-> IpMax, time_window |-> IpWindow]
      [] OTHER               -> [max_requests |-> DefaultMarketMax,
                                 time_window |-> DefaultMarketWindow]

\* ip_key = f"{key.split('_')[0]}_ip", None when it is not in ip_rate_limits.
IpKeyOf(key) ==
    IF key \in {"okx_market", "okx_private"} THEN "okx_ip" ELSE NoKey

Repeat(x, n) == [i \in 1..n |-> x]

\* The filter of _acquire_limit: timestamps still inside the window.
InWindow(reqs, t, window) == SelectSeq(reqs, LAMBDA r : t - r <= window)

\* One synchronous run of _acquire_limit(key, weight) at time t, up to its
\* first suspension: the list it leaves for the key and how it ends.
AcquireLimit(reqs, key, weight, t) ==
    LET rl == RateLimitOf(key)
        pruned == InWindow(reqs, t, rl.time_window)
        current_weight == Len(pruned) * weight
    IN  IF current_weight + weight > rl.max_requests
        THEN IF Len(pruned) = 0
             THEN [outcome |-> "raise", reqs |-> pruned, wake |-> 0]
             ELSE LET wait_time == pruned[1] + rl.time_window - t
                  IN  IF wait_time > 0
                      THEN [outcome |-> "sleep", reqs |-> pruned, wake |-> t + wait_time]
                      ELSE [outcome |-> "admitted",
                            reqs |-> pruned \o Repeat(t, weight), wake |-> 0]
        ELSE [outcome |-> "admitted", reqs |-> pruned \o Repeat(t, weight), wake |-> 0]

Idle == [st |-> "idle", key |-> NoKey, cur |-> NoKey, weight |-> 0, wake |-> 0]

\* acquire(key, weight) from the point where it runs _acquire_limit on
\* `cur` (the key itself, or its ip key) until it suspends or returns.
RunAcquire(c, key, cur, weight) ==
    LET r1 == AcquireLimit(requests[cur], cur, weight, now)
        reqs1 == [requests EXCEPT ![cur] = r1.reqs]
        ip == IpKeyOf(key)
    IN  IF r1.outcome = "sleep"
        THEN /\ requests' = reqs1
             /\ callers' = [callers EXCEPT ![c] =
                    [st |-> "sleeping", key |-> key, cur |-> cur,
                     weight |-> weight, wake |-> r1.wake]]
        ELSE IF r1.outcome = "raise"
        THEN /\ requests' = reqs1
             /\ callers' = [callers EXCEPT ![c] =
                    [st |-> "raised", key |-> key, cur |-> cur,
                     weight |-> weight, wake |-> 0]]
        ELSE IF cur = key /\ ip # NoKey
        THEN LET r2 == AcquireLimit(reqs1[ip], ip, weight, now)
             IN  /\ requests' = [reqs1 EXCEPT ![ip] = r2.reqs]
                 /\ callers' = [callers EXCEPT ![c] =
                        CASE r2.outcome = "sleep" ->
                               [st |-> "sleeping", key |-> key, cur |-> ip,
                                weight |-> weight, wake |-> r2.wake]
                          [] r2.outcome = "raise" ->
                               [st |-> "raised", key |-> key, cur |-> ip,
                                weight |-> weight, wake |-> 0]
                          [] OTHER -> Idle]
        ELSE /\ requests' = reqs1
             /\ callers' = [callers EXCEPT ![c] = Idle]

\* A task calls acquire(key, weight).
RLAcquire(c, key, weight) ==
    /\ callers[c].st = "idle"
    /\ calls < MaxCalls
    /\ calls' = calls + 1
    /\ RunAcquire(c, key, key, weight)
    /\ UNCHANGED now

\* asyncio.sleep(wait_time) is over: _acquire_limit calls itself again.
RLWake(c) ==
    /\ callers[c].st = "sleeping"
    /\ now >= callers[c].wake
    /\ RunAcquire(c, callers[c].key, callers[c].cur, callers[c].weight)
    /\ UNCHANGED <<now, calls>>

\* The caller of a failed acquire() sees the exception and goes on.
RLReturnError(c) ==
    /\ callers[c].st = "raised"
    /\ callers' = [callers EXCEPT ![c] = Idle]
    /\ UNCHANGED <<now, requests, calls>>

\* The clock advances.
RLTick ==
    /\ now < MaxTime
    /\ now' = now + 1
    /\ UNCHANGED <<requests, callers, calls>>

RLInit ==
    /\ now = 0
    /\ requests = [k \in Keys |-> <<>>]
    /\ callers = [c \in Callers |-> Idle]
    /\ calls = 0

FnIdle == fnIn = None /\ fnOut = None

\* The engine before process_token_batch is called.
EngIdle ==
    /\ ePc = "idle" /\ eTok = 0 /\ ePrices = None /\ eDexWorld = None
    /\ eI = 0 /\ eJ = 0 /\ eOpps = 0
    /\ eDb = <<>> /\ eDbRows = 0 /\ eNotes = <<>> /\ eCmp = None

\* WebSocket manager (cex/websocket_manager.py): venues, symbols, callbacks.
Venues == {"binance", "okx"}

Symbols == {"s1", "s2"}

Callbacks == {"cb1", "cb2"}

NoIter == [active |-> FALSE, left |-> {}, used |-> 0]

\* No stop() call is in progress.
NoStop == [pc |-> "idle", left |-> {}, used |-> 0]

\* No inbound message has been handled yet.
NoMessage == [shape |-> "none", venue |-> "-", symbol |-> "-", registered |-> <<>>,
              invoked |-> <<>>]

\* WebSocketManager.__init__
WSInit ==
    /\ wsConn = [v \in Venues |-> "absent"]
    /\ wsSubKeys = {}
    /\ wsSubs = [v \in Venues |-> {}]
    /\ wsCallbacks = [v \in Venues |-> [s \in Symbols |-> <<>>]]
    /\ wsShutdown = FALSE
    /\ wsRunning = FALSE
    /\ wsStop = NoStop
    /\ wsTask = [v \in Venues |-> "none"]
    /\ wsIt = [v \in Venues |-> NoIter]
    /\ wsSnap = [v \in Venues |-> {}]
    /\ wsReplaySent = [v \in Venues |-> [s \in Symbols |-> 0]]
    /\ wsWire = [v \in Venues |-> [s \in Symbols |-> [sub |-> 0, unsub |-> 0]]]
    /\ wsOps = 0
    /\ wsConnects = [v \in Venues |-> 0]
    /\ wsDelivered = NoMessage

\* ArbitrageEngine.__init__ (_running = True, the event not set); run() has
\* not been called.
RunIdle ==
    /\ rPc = "idle" /\ rRunning = TRUE /\ rShutdown = FALSE /\ rSleep = 0
    /\ rTokens = 0 /\ rI = 0 /\ rJ = 0 /\ rFailed = FALSE
    /\ rExit = "none" /\ rStop = "no" /\ sPc = "idle"

InitRL == RLInit /\ FnIdle /\ EngIdle /\ WSInit /\ RunIdle

NextRL ==
    \/ \E c \in Callers, key \in CallKeys, w \in 1..MaxWeight : RLAcquire(c, key, w)
          /\ UNCHANGED <<fnVars, engVars, wsVars, runVars>>
    \/ \E c \in Callers : RLWake(c)
          /\ UNCHANGED <<fnVars, engVars, wsVars, runVars>>
    \/ \E c \in Callers : RLReturnError(c)
          /\ UNCHANGED <<fnVars, engVars, wsVars, runVars>>
    \/ RLTick
          /\ UNCHANGED <<fnVars, engVars, wsVars, runVars>>

SpecRL == InitRL /\ [][NextRL]_vars

\* Number of recorded timestamps of a key that lie within its window now.
CountInWindow(key) ==
    Cardinality({i \in 1..Len(requests[key]) :
                    now - requests[key][i] <= RateLimitOf(key).time_window})

\* C1: at every instant the weighted number of admitted requests of a key
\* whose timestamp t satisfies now - t <= windowSeconds is at most the
\* key's maxRequests, the instant at which the oldest timestamp is exactly
\* windowSeconds old included.
C1_WindowNeverExceeded ==
    \A key \in Keys : CountInWindow(key) <= RateLimitOf(key).max_requests

\* Fewer than max_requests timestamps of the key lie within its window, and
\* the ip bucket of the key's venue (if it has one) is not full.
UnderLimit(key) ==
    /\ CountInWindow(key) < RateLimitOf(key).max_requests
    /\ IpKeyOf(key) # NoKey
          => CountInWindow(IpKeyOf(key)) < RateLimitOf(IpKeyOf(key)).max_requests

\* C12: a call acquire(key) that arrives while fewer than maxRequests
\* timestamps of the key lie within the trailing window (and the ip bucket
\* is not full) returns without suspending the caller, and a call that
\* arrives while maxRequests timestamps lie within the window (the
\* (maxRequests+1)th) is suspended.
C12_DelayOnlyOverLimit ==
    [][\A c \in Callers, key \in CallKeys :
          RLAcquire(c, key, 1)
             => /\ UnderLimit(key) => callers'[c].st = "idle"
                /\ CountInWindow(key) >= RateLimitOf(key).max_requests
                      => callers'[c].st = "sleeping"]_vars

\* The event loop runs a task whose sleep is over, and the clock advances
\* up to the horizon MaxTime.
SpecRLFair ==
    /\ SpecRL
    /\ WF_vars(RLTick /\ UNCHANGED <<fnVars, engVars, wsVars, runVars>>)
    /\ \A c \in Callers :
          WF_vars(RLWake(c) /\ UNCHANGED <<fnVars, engVars, wsVars, runVars>>)

\* C13: acquire never rejects a request: for any key and any weight >= 1
\* a call never raises an error, and, provided time advances, a suspended
\* call eventually returns (within the horizon of the clock).
C13_NeverRejects ==
    /\ [](\A c \in Callers : callers[c].st # "raised")
    /\ \A c \in Callers :
          (callers[c].st = "sleeping")
              ~> (callers[c].st = "idle" \/ now = MaxTime)

\* This step is the return of caller c from acquire(key, weight).
Returned(c, key, weight) ==
    /\ \/ RLAcquire(c, key, weight)
       \/ RLWake(c) /\ callers[c].key = key /\ callers[c].weight = weight
    /\ callers'[c].st = "idle"

\* C14: every request admitted by acquire on a venue's market or private
\* key is also counted in the venue's ip bucket, and the number of requests
\* of the venue counted within the ip window never exceeds the ip limit.
C14_IpBucketShared ==
    /\ [](CountInWindow("okx_ip") <= RateLimitOf("okx_ip").max_requests)
    /\ [][\A c \in Callers, key \in {"okx_market", "okx_private"},
            w \in 1..MaxWeight :
              Returned(c, key, w)
                 => LET q == requests'["okx_ip"]
                    IN  /\ Len(q) >= w
                        /\ \A i \in (Len(q) - w + 1)..Len(q) : q[i] = now]_vars

(***************************************************************************)
(* CEXManager.get_all_prices (cex/manager.py)                              *)
(***************************************************************************)

\* self.exchanges, in configuration order.
Exchanges == <<"MEXC", "OKX", "Binance">>

ExchangeNames == {Exchanges[i] : i \in 1..Len(Exchanges)}

\* Prices an adapter lookup can return (float(data.get("price", 0))).
LookupPrices == {0, 100, 110}

\* What one adapter lookup does: raises, returns None, or returns a price.
LookupOutcomes == {Raise, None} \cup {Val(p) : p \in LookupPrices}

\* Mutant: the exception test on a gathered result is lost.
IsExceptionNever(x) == FALSE

\* isinstance(x, Exception) on a gathered result.
IsException(x) == x = Raise

\* The entry stored for one market of one exchange (lines 199-209).
PriceEntry(outcome) == IF IsException(outcome) THEN None ELSE outcome

\* get_all_prices: `lookups` maps each exchange to the outcome of its
\* gathered pair [spot, futures], or to Raise when the pair itself failed.
GetAllPrices(lookups) ==
    [spot |-> [e \in ExchangeNames |->
                  IF IsException(lookups[e]) THEN None
                  ELSE PriceEntry(lookups[e].spot)],
     futures |-> [e \in ExchangeNames |->
                  IF IsException(lookups[e]) THEN None
                  ELSE PriceEntry(lookups[e].futures)]]

PricesInit ==
    /\ fnIn \in [ExchangeNames -> [spot : LookupOutcomes, futures : LookupOutcomes]]
    /\ fnOut = None

\* await self.cex_manager.get_all_prices(symbol)
PricesCall ==
    /\ fnOut = None
    /\ fnOut' = Val(GetAllPrices(fnIn))
    /\ UNCHANGED fnIn

InitPrices == RLInit /\ PricesInit /\ EngIdle /\ WSInit /\ RunIdle

NextPrices == PricesCall /\ UNCHANGED <<rlVars, engVars, wsVars, runVars>>

SpecPrices == InitPrices /\ [][NextPrices]_vars

\* C2: get_all_prices returns one spot and one futures entry for every
\* configured adapter; an entry is null exactly when that lookup raised or
\* returned no data, and every other entry holds the value the lookup
\* returned.
C2_PricesIsolateFailures ==
    fnOut # None =>
        /\ fnOut.kind = "value"
        /\ DOMAIN fnOut.v = {"spot", "futures"}
        /\ DOMAIN fnOut.v.spot = ExchangeNames
        /\ DOMAIN fnOut.v.futures = ExchangeNames
        /\ \A e \in ExchangeNames :
              /\ fnOut.v.spot[e] = None <=> fnIn[e].spot \in {Raise, None}
              /\ fnOut.v.futures[e] = None <=> fnIn[e].futures \in {Raise, None}
              /\ fnIn[e].spot \notin {Raise, None} => fnOut.v.spot[e] = fnIn[e].spot
              /\ fnIn[e].futures \notin {Raise, None}
                    => fnOut.v.futures[e] = fnIn[e].futures

\* One adapter raises on both lookups, the two others return prices: the
\* result holds two non-null and one null entry per market.
C2_Witness ==
    /\ fnOut # None
    /\ fnIn["OKX"].spot = Raise /\ fnIn["OKX"].futures = Raise
    /\ fnIn["MEXC"].spot = Val(100) /\ fnIn["Binance"].spot = Val(110)
    /\ fnIn["MEXC"].futures = Val(100) /\ fnIn["Binance"].futures = Val(110)
    /\ Cardinality({e \in ExchangeNames : fnOut.v.spot[e] # None}) = 2
    /\ Cardinality({e \in ExchangeNames : fnOut.v.futures[e] = None}) = 1

(***************************************************************************)
(* LiquidityAnalyzer.analyze_token_liquidity (utils/liquidity_analyzer.py) *)
(***************************************************************************)

MIN_CEX_24H_VOLUME == 1000000
MIN_DEX_LIQUIDITY == 500000

\* 24h volumes an adapter can report.
VolumeValues == {0, 400000, 600000, 1000000}

VolumeOutcomes == {Raise, None} \cup {Val(x) : x \in VolumeValues}

\* DEX liquidity (USD) of the pair DexScreener selects.
DexLiquidityValues == {0, 499999, 500000}

\* DexScreener.get_token_data: the token_data it builds from the selected
\* pair; the network is the pair's chainId in upper case.
Upper(chainId) ==
    CASE chainId = "solana" -> "SOLANA"
      [] chainId = "ethereum" -> "ETHEREUM"
      [] OTHER -> chainId

TokenData(priceUsd, chainId, liquidityUsd) ==
    [price |-> priceUsd, network |-> Upper(chainId), liquidity |-> liquidityUsd]

\* CEXManager.get_24h_volumes: an adapter that raised yields None.
Get24hVolumes(vol) ==
    [e \in ExchangeNames |-> IF IsException(vol[e]) THEN None ELSE vol[e]]

RECURSIVE SumNonNull(_, _)
SumNonNull(volumes, i) ==
    IF i > Len(Exchanges) THEN 0
    ELSE (IF volumes[Exchanges[i]] = None THEN 0 ELSE volumes[Exchanges[i]].v)
         + SumNonNull(volumes, i + 1)

\* CEXManager.get_total_cex_volume
GetTotalCexVolume(vol) == SumNonNull(Get24hVolumes(vol), 1)

\* LiquidityAnalyzer.get_dex_liquidity followed by sum(dex_liquidity.values()):
\* a failed or empty lookup leaves the dict empty.
TotalDexLiquidity(dex) ==
    IF dex = Raise \/ dex = None THEN 0 ELSE dex.v.liquidity

\* Mutant: the thresholds compared strictly.
HasSufficientLiquidityStrict(total_cex_volume, total_dex_liquidity) ==
    \/ total_cex_volume > MIN_CEX_24H_VOLUME
    \/ total_dex_liquidity > MIN_DEX_LIQUIDITY

HasSufficientLiquidity(total_cex_volume, total_dex_liquidity) ==
    \/ total_cex_volume >= MIN_CEX_24H_VOLUME
    \/ total_dex_liquidity >= MIN_DEX_LIQUIDITY

AnalyzeTokenLiquidity(vol, dex) ==
    LET total_cex_volume == GetTotalCexVolume(vol)
        total_dex_liquidity == TotalDexLiquidity(dex)
    IN  [total_cex_volume |-> total_cex_volume,
         total_dex_liquidity |-> total_dex_liquidity,
         has_sufficient_liquidity |->
             HasSufficientLiquidity(total_cex_volume, total_dex_liquidity)]

LiqDexOutcomes ==
    {Raise, None} \cup {Val(TokenData(100, "solana", l)) : l \in DexLiquidityValues}

LiqInit ==
    /\ fnIn \in [vol : [ExchangeNames -> VolumeOutcomes], dex : LiqDexOutcomes]
    /\ fnOut = None

\* await self.liquidity_analyzer.analyze_token_liquidity(symbol)
LiqCall ==
    /\ fnOut = None
    /\ fnOut' = Val(AnalyzeTokenLiquidity(fnIn.vol, fnIn.dex))
    /\ UNCHANGED fnIn

InitLiq == RLInit /\ LiqInit /\ EngIdle /\ WSInit /\ RunIdle

NextLiq == LiqCall /\ UNCHANGED <<rlVars, engVars, wsVars, runVars>>

SpecLiq == InitLiq /\ [][NextLiq]_vars

\* The volumes the adapters reported, as a bag over the exchanges.
ReportedVolume(e) == IF fnIn.vol[e].kind = "value" THEN fnIn.vol[e].v ELSE 0

ReportedTotal ==
    ReportedVolume("MEXC") + ReportedVolume("OKX") + ReportedVolume("Binance")

ReportedDexLiquidity == IF fnIn.dex.kind = "value" THEN fnIn.dex.v.liquidity ELSE 0

\* C9: analyze_token_liquidity returns has_sufficient_liquidity = true iff
\* total CEX 24h volume >= MIN_CEX_24H_VOLUME or total DEX liquidity >=
\* MIN_DEX_LIQUIDITY; a value equal to its threshold is sufficient and a
\* missing or failed DEX lookup counts as DEX liquidity 0.
C9_SufficientIffThreshold ==
    fnOut # None =>
        /\ fnOut.v.has_sufficient_liquidity
              <=> (\/ ReportedTotal >= MIN_CEX_24H_VOLUME
                   \/ ReportedDexLiquidity >= MIN_DEX_LIQUIDITY)
        /\ fnIn.dex \in {Raise, None} => fnOut.v.total_dex_liquidity = 0

\* The volumes add up to exactly the threshold while the DEX lookup failed.
C9_Witness ==
    /\ fnOut # None
    /\ ReportedTotal = MIN_CEX_24H_VOLUME
    /\ fnIn.vol["MEXC"] = Val(400000) /\ fnIn.vol["OKX"] = Val(600000)
    /\ fnIn.dex = Raise
    /\ fnOut.v.has_sufficient_liquidity

(***************************************************************************)
(* The spread of two prices (arbitrage_engine.py, lines 143-145)           *)
(***************************************************************************)

ARBITRAGE_THRESHOLD == 10

MaxPrice == 12

\* Spreads are kept as exact fractions num/den with den > 0.
Abs(x) == IF x < 0 THEN -x ELSE x

RatAbs(r) == [num |-> Abs(r.num), den |-> Abs(r.den)]

RatGeq(a, b) == a.num * b.den >= b.num * a.den

RatEq(a, b) == a.num * b.den = b.num * a.den

\* max(a, b) of Python: the first argument unless the second is larger.
RatMax(a, b) == IF RatGeq(a, b) THEN a ELSE b

\* Mutant: only the first direction is taken.
SpreadOneWay(price1, price2) ==
    RatAbs([num |-> (price1 - price2) * 100, den |-> price2])

\* spread1 = (price1 - price2) / price2 * 100
\* spread2 = (price2 - price1) / price1 * 100
\* spread = max(abs(spread1), abs(spread2))
Spread(price1, price2) ==
    LET spread1 == [num |-> (price1 - price2) * 100, den |-> price2]
        spread2 == [num |-> (price2 - price1) * 100, den |-> price1]
    IN  RatMax(RatAbs(spread1), RatAbs(spread2))

\* Mutant: the threshold compared strictly.
QualifiesStrict(spread) == spread.num > ARBITRAGE_THRESHOLD * spread.den

\* spread >= ARBITRAGE_THRESHOLD
Qualifies(spread) == spread.num >= ARBITRAGE_THRESHOLD * spread.den

SpreadInit ==
    /\ fnIn \in [pA : 1..MaxPrice, pB : 1..MaxPrice]
    /\ fnOut = None

SpreadCall ==
    /\ fnOut = None
    /\ fnOut' = Val(Spread(fnIn.pA, fnIn.pB))
    /\ UNCHANGED fnIn

InitSpread == RLInit /\ SpreadInit /\ EngIdle /\ WSInit /\ RunIdle

NextSpread == SpreadCall /\ UNCHANGED <<rlVars, engVars, wsVars, runVars>>

SpecSpread == InitSpread /\ [][NextSpread]_vars

Min(a, b) == IF a <= b THEN a ELSE b

\* C10: for two positive prices the computed spread equals
\* 100 * |pA - pB| / min(pA, pB); it is the same whichever quote is taken
\* first and it is 0 when pA = pB.
C10_SpreadSymmetric ==
    fnOut # None =>
        /\ fnOut.v.den > 0
        /\ fnOut.v.num * Min(fnIn.pA, fnIn.pB)
              = 100 * Abs(fnIn.pA - fnIn.pB) * fnOut.v.den
        /\ RatEq(fnOut.v, Spread(fnIn.pB, fnIn.pA))
        /\ fnIn.pA = fnIn.pB => fnOut.v.num = 0

\* The spread of two different prices has been computed, the larger first.
C10_Witness ==
    /\ fnOut # None
    /\ fnIn.pA = 11 /\ fnIn.pB = 10
    /\ fnOut.v.num = 100 /\ fnOut.v.den = 10

(***************************************************************************)
(* BaseCEX._retry_request (cex/base.py)                                    *)
(***************************************************************************)

\* self.max_retries
max_retries == 3

\* How many attempts of the wrapped request have a drawn outcome.
RetryWorldLen == 4

\* self.retry_exceptions, by class: aiohttp.ClientError,
\* asyncio.TimeoutError, KeyError, ValueError.
retry_exceptions == {"ClientError", "TimeoutError", "KeyError", "ValueError"}

\* What one attempt of the wrapped request does: it returns, or it raises
\* an exception of the named class.
AttemptOutcomes == {"ok", "ClientError", "ValueError", "RuntimeError"}

\* The exception raised by the attempt-th call.
Raised(attempt, class) == [kind |-> "raise", attempt |-> attempt, class |-> class]

\* for attempt in range(limit): try: return await func(...)
\* except retried: re-raise on the last attempt, else sleep and continue.
\* `attempt` counts from 0 as in the code; outcomes[attempt + 1] is what
\* that call does.
RECURSIVE RetryLoop(_, _, _, _)
RetryLoop(outcomes, attempt, limit, retried) ==
    IF attempt >= limit
    THEN [calls |-> attempt, sleeps |-> attempt, result |-> None]
    ELSE LET o == outcomes[attempt + 1]
         IN  IF o = "ok"
             THEN [calls |-> attempt + 1, sleeps |-> attempt,
                   result |-> Val(attempt + 1)]
             ELSE IF o \in retried
             THEN IF attempt = limit - 1
                  THEN [calls |-> attempt + 1, sleeps |-> attempt,
                        result |-> Raised(attempt + 1, o)]
                  ELSE RetryLoop(outcomes, attempt + 1, limit, retried)
             ELSE [calls |-> attempt + 1, sleeps |-> attempt,
                   result |-> Raised(attempt + 1, o)]

\* Mutant: every exception is retried.
RetryRequestRetriesAll(outcomes) ==
    RetryLoop(outcomes, 0, max_retries, AttemptOutcomes \ {"ok"})

\* _retry_request(func): the number of calls of func, of backoff sleeps,
\* and what the caller gets.
RetryRequest(outcomes) == RetryLoop(outcomes, 0, max_retries, retry_exceptions)

RetryInit ==
    /\ fnIn \in [outcomes : [1..RetryWorldLen -> AttemptOutcomes]]
    /\ fnOut = None

RetryCall ==
    /\ fnOut = None
    /\ fnOut' = Val(RetryRequest(fnIn.outcomes))
    /\ UNCHANGED fnIn

InitRetry == RLInit /\ RetryInit /\ EngIdle /\ WSInit /\ RunIdle

NextRetry == RetryCall /\ UNCHANGED <<rlVars, engVars, wsVars, runVars>>

SpecRetry == InitRetry /\ [][NextRetry]_vars

\* The attempts that do not fail with a transient class: they end the call.
Decisive(outcomes) == {i \in 1..max_retries : outcomes[i] \notin retry_exceptions}

\* C30: _retry_request calls the wrapped request at most max_retries
\* times; it stops at the first attempt that succeeds, returning its
\* result, or that fails with a non-transient class, raising that failure;
\* it makes another attempt only after a transient failure; and after
\* max_retries transient failures in a row it raises the last of them.
C30_RetryAtMostMaxRetries ==
    fnOut # None =>
        LET out == fnOut.v
            o == fnIn.outcomes
            d == Decisive(o)
        IN  /\ out.calls <= max_retries
            /\ \A i \in 1..(out.calls - 1) : o[i] \in retry_exceptions
            /\ IF d = {}
               THEN /\ out.calls = max_retries
                    /\ out.result = Raised(max_retries, o[max_retries])
               ELSE LET k == CHOOSE i \in d : \A j \in d : i <= j
                    IN  /\ out.calls = k
                        /\ out.result = IF o[k] = "ok" THEN Val(k) ELSE Raised(k, o[k])

\* Three transient failures in a row: the third is raised and the fourth
\* attempt, which would have succeeded, is not made.
C30_Witness ==
    /\ fnOut # None
    /\ fnIn.outcomes[1] = "ClientError"
    /\ fnIn.outcomes[2] = "ValueError"
    /\ fnIn.outcomes[3] = "ClientError"
    /\ fnIn.outcomes[4] = "ok"
    /\ fnOut.v.calls = 3
    /\ fnOut.v.result = Raised(3, "ClientError")

(***************************************************************************)
(* ArbitrageEngine.process_token_batch (arbitrage/arbitrage_engine.py),    *)
(* the per-batch step of run().  Tokens are named by their index.          *)
(***************************************************************************)

BatchLen == 2

EngSpotPrices == {100, 105, 110}

EngFuturesPrices == {0, 100, 110}

\* Adapter lookups of one token (a lookup that raises ends as None, see
\* GetAllPrices).
EngLookups ==
    [ExchangeNames -> [spot : {None} \cup {Val(x) : x \in EngSpotPrices},
                       futures : {None} \cup {Val(x) : x \in EngFuturesPrices}]]

\* What DexScreener has for a token.
EngDexOutcomes ==
    {None, Val(TokenData(121, "solana", 500000)), Val(TokenData(105, "ethereum", 1000))}

\* 24h volumes the adapters report when the analyzer asks.
EngVolumes ==
    {[e \in ExchangeNames |-> None],
     [e \in ExchangeNames |-> IF e = "Binance" THEN Val(1000000) ELSE None]}

\* [(cex, price) for cex, price in prices[market].items()
\*             if price is not None and price > 0]
RECURSIVE FilterFrom(_, _)
FilterFrom(m, i) ==
    IF i > Len(Exchanges) THEN <<>>
    ELSE (IF m[Exchanges[i]] # None /\ m[Exchanges[i]].v > 0
          THEN <<[cex |-> Exchanges[i], price |-> m[Exchanges[i]].v]>>
          ELSE <<>>) \o FilterFrom(m, i + 1)

FilterPrices(m) == FilterFrom(m, 1)

\* for i, (cex1, price1) in enumerate(L): for cex2, price2 in L[i+1:]
\* <<0, 0>> stands for both loops being exhausted.
FirstPair(L) == IF Len(L) >= 2 THEN <<1, 2>> ELSE <<0, 0>>

NextPair(L, i, j) ==
    IF j < Len(L) THEN <<i, j + 1>>
    ELSE IF i + 1 < Len(L) THEN <<i + 1, i + 2>>
    ELSE <<0, 0>>

\* What `continue` does after an opportunity has been reported: it goes
\* on with the next pair of the inner loop.
AfterOpportunity(L, i, j) == NextPair(L, i, j)

\* Mutant: the guard of the DEX phase as _process_single_token has it (a
\* price is enough) and without the test of the counter.
DexEligibleAnyNetwork(opps, dex) ==
    /\ dex # None
    /\ dex.v.price # 0

\* Mutant: the network is compared with the upper-case name that
\* DexScreener.get_token_data returns.
DexEligibleUpperCase(opps, dex) ==
    /\ opps = 0
    /\ dex # None
    /\ dex.v.network = "SOLANA"
    /\ dex.v.price # 0

\* if opportunities == 0: ... if dex_data and
\* dex_data.get("network") == "solana" and dex_data.get("price"):
DexEligible(opps, dex) ==
    /\ opps = 0
    /\ dex # None
    /\ dex.v.network = "solana"
    /\ dex.v.price # 0

\* Index of the first entry of L whose spread against the DEX price
\* qualifies, 0 if there is none (the loops of lines 238-256, 260-278).
RECURSIVE FirstDexMatch(_, _, _)
FirstDexMatch(L, dex_price, i) ==
    IF i > Len(L) THEN 0
    ELSE IF Qualifies(Spread(L[i].price, dex_price)) THEN i
    ELSE FirstDexMatch(L, dex_price, i + 1)

\* process_token_batch(tokens) is called: opportunities = 0.
EStart ==
    /\ ePc = "idle"
    /\ ePc' = "fetch"
    /\ eTok' = 1
    /\ eOpps' = 0
    /\ UNCHANGED <<ePrices, eDexWorld, eI, eJ, eDb, eDbRows, eNotes, eCmp>>

\* prices = await self.cex_manager.get_all_prices(token), then the two
\* filtered lists; the spot loops start.
EFetch ==
    /\ ePc = "fetch"
    /\ \E lookups \in EngLookups, world \in EngDexOutcomes :
          /\ ePrices' = GetAllPrices(lookups)
          /\ eDexWorld' = world
          /\ eI' = FirstPair(FilterPrices(ePrices'.spot))[1]
          /\ eJ' = FirstPair(FilterPrices(ePrices'.spot))[2]
    /\ ePc' = "spot"
    /\ UNCHANGED <<eTok, eOpps, eDb, eDbRows, eNotes, eCmp>>

\* Database.log_opportunity: the Opportunity row as it is inserted; the
\* columns not passed take their defaults (notification_sent False).
LogOpportunity(id, token, spread, high_exchange, high_price, low_exchange, low_price, market_type, volume_24h) ==
    [id |-> id, token |-> token, spread |-> spread,
     high_exchange |-> high_exchange, high_price |-> high_price,
     low_exchange |-> low_exchange, low_price |-> low_price,
     market_type |-> market_type, volume_24h |-> volume_24h,
     notification_sent |-> FALSE]

\* Mutant: the row is marked as notified whatever send_message returned.
AfterNotificationAlwaysMarks(row, success, opportunity_id) ==
    [row EXCEPT !.notification_sent = TRUE]

\* success = await self.notifier.send_message(message), then
\* `if success and opportunity_id: await self.db.execute("UPDATE ...")`.
\* Database has no method execute: the call raises AttributeError, which
\* the handler of _send_cex_arbitrage_notification logs, and the row stays
\* as it was inserted; without success nothing is attempted.
AfterNotification(row, success, opportunity_id) ==
    IF success /\ opportunity_id # 0 THEN row ELSE row

\* Mutant: the first quote of the pair is always reported as the high one.
HighQuoteFirst(q1, q2) == q1

\* if price1 > price2: high_cex, high_price = cex1, price1 ... else: ...
HighQuote(q1, q2) == IF q1.price > q2.price THEN q1 ELSE q2

LowQuote(q1, q2) == IF q1.price > q2.price THEN q2 ELSE q1

\* One pass of the inner loop body over the pair (eI, eJ) of a market:
\* lines 142-182 (spot) and 188-228 (futures).
CexPairStep(market) ==
    LET L == FilterPrices(ePrices[market])
        a == L[eI]
        b == L[eJ]
        spread == Spread(a.price, b.price)
        high == HighQuote(a, b)
        low == LowQuote(a, b)
    IN  IF Qualifies(spread)
        THEN \E vol \in EngVolumes, dbOk \in BOOLEAN, sendOk \in BOOLEAN :
               LET liquidity_data == AnalyzeTokenLiquidity(vol, eDexWorld)
                   opportunity_id == eDbRows + 1
                   inserted == LogOpportunity(opportunity_id, eTok, spread,
                                              high.cex, high.price, low.cex, low.price,
                                              market, liquidity_data.total_cex_volume)
                   row == [created |-> inserted,
                           stored |-> AfterNotification(inserted, sendOk, opportunity_id)]
                   note == [kind |-> "cex", token |-> eTok, market |-> market,
                            spread |-> spread,
                            high |-> high.cex, low |-> low.cex,
                            high_price |-> high.price, low_price |-> low.price,
                            sufficient |-> liquidity_data.has_sufficient_liquidity,
                            ok |-> sendOk]
               IN  /\ eCmp' = [a |-> a.price, b |-> b.price, flagged |-> TRUE]
                   /\ IF dbOk
                      THEN /\ eDb' = Append(eDb, row)
                           /\ eDbRows' = eDbRows + 1
                           /\ eNotes' = Append(eNotes, note)
                           /\ eOpps' = eOpps + 1
                           /\ eI' = AfterOpportunity(L, eI, eJ)[1]
                           /\ eJ' = AfterOpportunity(L, eI, eJ)[2]
                           /\ ePc' = ePc
                      ELSE \* log_opportunity raised: except Exception, next token
                           /\ ePc' = "next"
                           /\ eI' = 0 /\ eJ' = 0
                           /\ UNCHANGED <<eDb, eDbRows, eNotes, eOpps>>
        ELSE /\ eCmp' = [a |-> a.price, b |-> b.price, flagged |-> FALSE]
             /\ eI' = NextPair(L, eI, eJ)[1]
             /\ eJ' = NextPair(L, eI, eJ)[2]
             /\ UNCHANGED <<ePc, eDb, eDbRows, eNotes, eOpps>>

ESpotPair ==
    /\ ePc = "spot" /\ eI # 0
    /\ CexPairStep("spot")
    /\ UNCHANGED <<eTok, ePrices, eDexWorld>>

\* The spot loops are over: if opportunities == 0 the futures loops start.
ESpotDone ==
    /\ ePc = "spot" /\ eI = 0
    /\ IF eOpps = 0
       THEN /\ ePc' = "futures"
            /\ eI' = FirstPair(FilterPrices(ePrices.futures))[1]
            /\ eJ' = FirstPair(FilterPrices(ePrices.futures))[2]
       ELSE /\ ePc' = "dex"
            /\ UNCHANGED <<eI, eJ>>
    /\ UNCHANGED <<eTok, ePrices, eDexWorld, eOpps, eDb, eDbRows, eNotes, eCmp>>

EFuturesPair ==
    /\ ePc = "futures" /\ eI # 0
    /\ CexPairStep("futures")
    /\ UNCHANGED <<eTok, ePrices, eDexWorld>>

EFuturesDone ==
    /\ ePc = "futures" /\ eI = 0
    /\ ePc' = "dex"
    /\ UNCHANGED <<eTok, ePrices, eDexWorld, eI, eJ, eOpps, eDb, eDbRows, eNotes, eCmp>>

\* Lines 230-278: the DEX phase of the token.  Its loops stop at the first
\* match (break) and write no row.
EDex ==
    /\ ePc = "dex"
    /\ ePc' = "next"
    /\ LET dex_data == eDexWorld
           spot_prices == FilterPrices(ePrices.spot)
           futures_prices == FilterPrices(ePrices.futures)
       IN  IF DexEligible(eOpps, dex_data)
           THEN LET dex_price == dex_data.v.price
                    s == FirstDexMatch(spot_prices, dex_price, 1)
                    f == FirstDexMatch(futures_prices, dex_price, 1)
                    market == IF s # 0 THEN "spot" ELSE "futures"
                    hit == IF s # 0 THEN spot_prices[s] ELSE futures_prices[f]
                IN  IF s # 0 \/ f # 0
                    THEN \E vol \in EngVolumes, sendOk \in BOOLEAN :
                           /\ eNotes' = Append(eNotes,
                                 [kind |-> "dex", token |-> eTok, market |-> market,
                                  spread |-> Spread(hit.price, dex_price),
                                  high |-> hit.cex, low |-> "dex",
                                  high_price |-> hit.price, low_price |-> dex_price,
                                  sufficient |-> AnalyzeTokenLiquidity(vol, eDexWorld)
                                                   .has_sufficient_liquidity,
                                  ok |-> sendOk])
                           /\ eOpps' = eOpps + 1
                    ELSE UNCHANGED <<eNotes, eOpps>>
           ELSE UNCHANGED <<eNotes, eOpps>>
    /\ UNCHANGED <<eTok, ePrices, eDexWorld, eI, eJ, eDb, eDbRows, eCmp>>

\* The for loop takes the next token, or the batch returns.
ENextToken ==
    /\ ePc = "next"
    /\ IF eTok < BatchLen
       THEN ePc' = "fetch" /\ eTok' = eTok + 1
       ELSE ePc' = "done" /\ eTok' = eTok
    /\ ePrices' = None /\ eDexWorld' = None
    /\ eDb' = <<>> /\ eNotes' = <<>> /\ eCmp' = None
    /\ UNCHANGED <<eI, eJ, eOpps, eDbRows>>

InitEngine == RLInit /\ FnIdle /\ EngIdle /\ WSInit /\ RunIdle

NextEngine ==
    \/ EStart
          /\ UNCHANGED <<rlVars, fnVars, wsVars, runVars>>
    \/ EFetch
          /\ UNCHANGED <<rlVars, fnVars, wsVars, runVars>>
    \/ ESpotPair
          /\ UNCHANGED <<rlVars, fnVars, wsVars, runVars>>
    \/ ESpotDone
          /\ UNCHANGED <<rlVars, fnVars, wsVars, runVars>>
    \/ EFuturesPair
          /\ UNCHANGED <<rlVars, fnVars, wsVars, runVars>>
    \/ EFuturesDone
          /\ UNCHANGED <<rlVars, fnVars, wsVars, runVars>>
    \/ EDex
          /\ UNCHANGED <<rlVars, fnVars, wsVars, runVars>>
    \/ ENextToken
          /\ UNCHANGED <<rlVars, fnVars, wsVars, runVars>>

SpecEngine == InitEngine /\ [][NextEngine]_vars

\* The spread of two positive prices reaches the threshold.
SpreadReaches(a, b) == 100 * Abs(a - b) >= ARBITRAGE_THRESHOLD * Min(a, b)

\* The exchange has a usable (non-null, positive) price of the current token.
Priced(market, e) == ePrices[market][e] # None /\ ePrices[market][e].v > 0

\* Some pair of exchanges of the current token qualifies in the market.
SomeCexPair(market) ==
    /\ ePrices # None
    /\ \E e1, e2 \in ExchangeNames :
          /\ e1 # e2 /\ Priced(market, e1) /\ Priced(market, e2)
          /\ SpreadReaches(ePrices[market][e1].v, ePrices[market][e2].v)

\* Some CEX price of the current token qualifies against the DEX price.
SomeDexPair ==
    /\ ePrices # None /\ eDexWorld # None /\ eDexWorld.v.price > 0
    /\ \E market \in {"spot", "futures"}, e \in ExchangeNames :
          /\ Priced(market, e)
          /\ SpreadReaches(ePrices[market][e].v, eDexWorld.v.price)

\* C4: a compared pair is treated as a qualifying opportunity iff its
\* spread is >= ARBITRAGE_THRESHOLD (equal qualifies, below does not); when
\* no pair of the symbol qualifies the engine makes no persistence call
\* and sends no notification for it in that cycle.
C4_ThresholdInclusive ==
    /\ eCmp # None => (eCmp.flagged <=> SpreadReaches(eCmp.a, eCmp.b))
    /\ (/\ ePrices # None
        /\ ~SomeCexPair("spot") /\ ~SomeCexPair("futures") /\ ~SomeDexPair)
         => /\ eDb = <<>> /\ eNotes = <<>>
            /\ eCmp # None => ~eCmp.flagged

\* A pair whose spread is exactly the threshold was compared and reported.
C4_Witness ==
    /\ eCmp = [a |-> 100, b |-> 110, flagged |-> TRUE]
    /\ 100 * Abs(eCmp.a - eCmp.b) = ARBITRAGE_THRESHOLD * Min(eCmp.a, eCmp.b)
    /\ Len(eDb) = 1 /\ Len(eNotes) = 1

\* C5: a symbol with a qualifying spread for which the Liquidity Analyzer
\* reports insufficient liquidity is discarded: no notification is sent
\* and no opportunity record is written.
C5_InsufficientDiscarded ==
    /\ \A i \in 1..Len(eNotes) : eNotes[i].sufficient
    /\ Len(eDb) <= Cardinality({i \in 1..Len(eNotes) : eNotes[i].sufficient})

\* C6: when both a futures-futures pair and a spot-spot pair of the symbol
\* qualify, the opportunity the engine reports is the futures one.
C6_FuturesBeforeSpot ==
    (/\ ePc = "next" /\ SomeCexPair("futures") /\ SomeCexPair("spot")
     /\ eNotes # <<>>)
        => /\ eNotes[1].kind = "cex" /\ eNotes[1].market = "futures"
           /\ \A i \in 1..Len(eDb) : eDb[i].stored.market_type = "futures"

\* C7: at most one opportunity is persisted and at most one notification
\* is sent per symbol per cycle, even when several pairs qualify.
C7_AtMostOnePerSymbol == Len(eDb) <= 1 /\ Len(eNotes) <= 1

\* C8: if some CEX-CEX pair of a symbol qualifies in a cycle, no CEX-DEX
\* opportunity is reported for that symbol in that cycle.
C8_CexSuppressesDex ==
    (SomeCexPair("spot") \/ SomeCexPair("futures"))
        => \A i \in 1..Len(eNotes) : eNotes[i].kind # "dex"

\* The token is finished, a CEX-CEX pair was reported, and the DEX price of
\* the token (a Solana pair) would qualify against a CEX price as well.
C8_Witness ==
    /\ ePc = "next"
    /\ SomeCexPair("spot") /\ SomeDexPair
    /\ eDexWorld = Val(TokenData(121, "solana", 500000))
    /\ Len(eNotes) >= 1 /\ eNotes[1].kind = "cex"
    /\ \A i \in 1..Len(eNotes) : eNotes[i].kind # "dex"

\* The exchange's usable price of the current token in a market is p.
QuoteOf(market, e, p) == Priced(market, e) /\ ePrices[market][e].v = p

\* C11: every CEX-CEX opportunity the engine persists or notifies names as
\* high venue/price the quote with the strictly larger price and as low
\* venue/price the other quote of the same compared pair: the high price is
\* greater than the low price and the two venues differ.
C11_HighLowOrdered ==
    /\ \A i \in 1..Len(eDb) :
          /\ eDb[i].stored.high_price > eDb[i].stored.low_price
          /\ eDb[i].stored.high_exchange # eDb[i].stored.low_exchange
          /\ QuoteOf(eDb[i].stored.market_type, eDb[i].stored.high_exchange, eDb[i].stored.high_price)
          /\ QuoteOf(eDb[i].stored.market_type, eDb[i].stored.low_exchange, eDb[i].stored.low_price)
    /\ \A i \in 1..Len(eNotes) :
          eNotes[i].kind = "cex"
             => /\ eNotes[i].high_price > eNotes[i].low_price
                /\ eNotes[i].high # eNotes[i].low
                /\ QuoteOf(eNotes[i].market, eNotes[i].high, eNotes[i].high_price)
                /\ QuoteOf(eNotes[i].market, eNotes[i].low, eNotes[i].low_price)

\* A futures pair whose first quote is the lower one (MEXC 100, OKX 110)
\* was reported with OKX as the high venue.
C11_Witness ==
    /\ Len(eDb) = 1 /\ Len(eNotes) = 1
    /\ eDb[1].stored.market_type = "futures"
    /\ eDb[1].stored.high_exchange = "OKX" /\ eDb[1].stored.high_price = 110
    /\ eDb[1].stored.low_exchange = "MEXC" /\ eDb[1].stored.low_price = 100
    /\ eNotes[1].high = "OKX" /\ eNotes[1].low = "MEXC"

\* C26: when persisting an opportunity fails (log_opportunity raises) the
\* pair loops of the token go on and the notification of that opportunity
\* is still sent: every pair the engine flags gets its notification,
\* whether or not its row was written.
C26_PersistFailureStillNotifies ==
    [][((ESpotPair \/ EFuturesPair) /\ eCmp'.flagged)
          => /\ Len(eNotes') = Len(eNotes) + 1
             /\ ePc' = ePc]_vars

\* The columns of an Opportunity row other than notification_sent.
OtherColumns ==
    {"id", "token", "spread", "high_exchange", "high_price", "low_exchange",
     "low_price", "market_type", "volume_24h"}

\* C27: a persisted opportunity row has notification_sent false when it
\* is inserted; the column is true only if the notifier reported that the
\* notification of that opportunity was delivered, never after a failed
\* delivery; and no other column differs from what was inserted.
C27_NotificationSentOnlyAfterDelivery ==
    \A i \in 1..Len(eDb) :
        /\ ~eDb[i].created.notification_sent
        /\ eDb[i].stored.notification_sent
              => (i <= Len(eNotes) /\ eNotes[i].kind = "cex" /\ eNotes[i].ok)
        /\ \A c \in OtherColumns : eDb[i].stored[c] = eDb[i].created[c]

\* A row was written and the delivery of its notification failed.
C27_Witness ==
    /\ Len(eDb) = 1 /\ Len(eNotes) = 1
    /\ ~eNotes[1].ok
    /\ ~eDb[1].stored.notification_sent

\* The persisted row and the notification are about the same opportunity.
SameOpportunity(row, note) ==
    /\ row.token = note.token
    /\ row.market_type = note.market
    /\ row.spread = note.spread
    /\ row.high_exchange = note.high \/ row.low_exchange = note.high

MaxWsOps == 3
MaxConnects == 2
MaxCallbacks == 2

\* unsubscribe(exchange, symbol) without a callback.
NoCallback == "-"

\* exchange in self.connections and not self.connections[exchange].closed
Live(v) == wsConn[v] = "open"

InSeq(x, q) == \E i \in 1..Len(q) : q[i] = x

\* list.remove(x): the first occurrence is taken out.
RemoveFirst(q, x) ==
    LET i == CHOOSE k \in 1..Len(q) : q[k] = x /\ \A m \in 1..(k - 1) : q[m] # x
    IN  SubSeq(q, 1, i - 1) \o SubSeq(q, i + 1, Len(q))

\* A set iterator after the set gained element s: the new entry lies
\* either ahead of the iterator's position in the table or behind it.
IterAfterAdd(it, s, ahead) ==
    IF it.active /\ ahead THEN [it EXCEPT !.left = @ \cup {s}] ELSE it

\* A set iterator after s was discarded from the set.
IterAfterDiscard(it, s) == [it EXCEPT !.left = @ \ {s}]

\* subscribe(exchange, symbol, callback), followed by `own` subscribe
\* messages that the calling venue client writes itself when the socket is
\* open.  send_json writes its frame before it can suspend, so the call runs
\* to its end in one step.
Subscribe(v, s, cb, own) ==
    /\ UNCHANGED wsDelivered
    /\ wsOps < MaxWsOps
    /\ Len(wsCallbacks[v][s]) < MaxCallbacks
    /\ wsOps' = wsOps + 1
    /\ wsCallbacks' = [wsCallbacks EXCEPT ![v][s] = Append(@, cb)]
    /\ wsSubKeys' = wsSubKeys \cup {v}
    /\ IF s \notin wsSubs[v]
       THEN /\ wsSubs' = [wsSubs EXCEPT ![v] = @ \cup {s}]
            /\ \E ahead \in BOOLEAN :
                  wsIt' = [wsIt EXCEPT ![v] = IterAfterAdd(@, s, ahead)]
            /\ wsWire' = IF Live(v)
                         THEN [wsWire EXCEPT ![v][s].sub = @ + 1 + own]
                         ELSE wsWire
       ELSE /\ wsWire' = IF Live(v)
                         THEN [wsWire EXCEPT ![v][s].sub = @ + own]
                         ELSE wsWire
            /\ UNCHANGED <<wsSubs, wsIt>>
    /\ UNCHANGED <<wsConn, wsShutdown, wsRunning, wsStop, wsTask, wsSnap,
                   wsReplaySent, wsConnects>>

\* WebSocketManager.subscribe(exchange, symbol, callback)
WSSubscribe(v, s, cb) == Subscribe(v, s, cb, 0)

\* self._price_callback of the OKX client.
PriceCallback == "cb1"

\* OKXWebSocket.subscribe_to_price(symbol): ws_manager.subscribe with the
\* client's price callback, then the OKX subscription message if the
\* socket is open.
OKXSubscribeToPrice(s) == Subscribe("okx", s, PriceCallback, 1)

\* unsubscribe(exchange, symbol, callback), callback may be NoCallback,
\* followed by `own` unsubscribe messages of the calling venue client.
\* list.remove of a callback that is not registered raises ValueError
\* before anything has changed.
Unsubscribe(v, s, cb, own) ==
    /\ UNCHANGED wsDelivered
    /\ wsOps < MaxWsOps
    /\ wsOps' = wsOps + 1
    /\ LET registered == wsCallbacks[v][s] # <<>>
           raises == cb # NoCallback /\ registered /\ ~InSeq(cb, wsCallbacks[v][s])
           cbs == IF cb = NoCallback THEN <<>>
                  ELSE IF registered /\ ~raises THEN RemoveFirst(wsCallbacks[v][s], cb)
                  ELSE wsCallbacks[v][s]
           sent == IF Live(v) THEN own ELSE 0
       IN  IF raises
           THEN UNCHANGED <<wsCallbacks, wsSubs, wsIt, wsWire>>
           ELSE /\ wsCallbacks' = [wsCallbacks EXCEPT ![v][s] = cbs]
                /\ IF (cb = NoCallback \/ cbs = <<>>) /\ v \in wsSubKeys
                   THEN /\ wsSubs' = [wsSubs EXCEPT ![v] = @ \ {s}]
                        /\ wsIt' = [wsIt EXCEPT ![v] = IterAfterDiscard(@, s)]
                        /\ wsWire' = IF Live(v)
                                     THEN [wsWire EXCEPT ![v][s].unsub = @ + 1 + sent]
                                     ELSE wsWire
                   ELSE /\ wsWire' = [wsWire EXCEPT ![v][s].unsub = @ + sent]
                        /\ UNCHANGED <<wsSubs, wsIt>>
    /\ UNCHANGED <<wsConn, wsSubKeys, wsShutdown, wsRunning, wsStop, wsTask,
                   wsSnap, wsReplaySent, wsConnects>>

\* Mutant: unsubscribe takes the callback out and sends the message but
\* leaves the symbol in self.subscriptions[exchange].
WSUnsubscribeKeepsSymbol(v, s, cb) ==
    /\ UNCHANGED wsDelivered
    /\ wsOps < MaxWsOps
    /\ wsOps' = wsOps + 1
    /\ LET registered == wsCallbacks[v][s] # <<>>
           raises == cb # NoCallback /\ registered /\ ~InSeq(cb, wsCallbacks[v][s])
           cbs == IF cb = NoCallback THEN <<>>
                  ELSE IF registered /\ ~raises THEN RemoveFirst(wsCallbacks[v][s], cb)
                  ELSE wsCallbacks[v][s]
       IN  IF raises
           THEN UNCHANGED <<wsCallbacks, wsWire>>
           ELSE /\ wsCallbacks' = [wsCallbacks EXCEPT ![v][s] = cbs]
                /\ wsWire' = IF (cb = NoCallback \/ cbs = <<>>) /\ v \in wsSubKeys /\ Live(v)
                             THEN [wsWire EXCEPT ![v][s].unsub = @ + 1]
                             ELSE wsWire
    /\ UNCHANGED <<wsConn, wsSubKeys, wsSubs, wsIt, wsShutdown, wsRunning, wsStop, wsTask,
                   wsSnap, wsReplaySent, wsConnects>>

\* WebSocketManager.unsubscribe(exchange, symbol, callback)
WSUnsubscribe(v, s, cb) == Unsubscribe(v, s, cb, 0)

\* OKXWebSocket.unsubscribe_from_price(symbol): ws_manager.unsubscribe
\* without a callback, then the OKX unsubscription message if the socket
\* is open.
OKXUnsubscribeFromPrice(s) == Unsubscribe("okx", s, NoCallback, 1)

\* start({exchange: url}), called while no stop() is in progress and the
\* venue has no live task: the flags are set and the maintenance task of
\* the venue is created.
WSStart(v) ==
    /\ UNCHANGED wsDelivered
    /\ wsTask[v] \in {"none", "done"}
    /\ wsStop.pc = "idle"
    /\ wsRunning' = TRUE
    /\ wsShutdown' = FALSE
    /\ wsTask' = [wsTask EXCEPT ![v] = "top"]
    /\ wsSnap' = [wsSnap EXCEPT ![v] = {}]
    /\ wsReplaySent' = [wsReplaySent EXCEPT ![v] = [s \in Symbols |-> 0]]
    /\ wsConnects' = [wsConnects EXCEPT ![v] = 0]
    /\ UNCHANGED <<wsConn, wsSubKeys, wsSubs, wsCallbacks, wsStop, wsIt, wsWire, wsOps>>

\* Mutant: the loop test does not look at the shutdown event.
WSLoopTopIgnoresShutdown(v) ==
    /\ UNCHANGED wsDelivered
    /\ wsTask[v] = "top"
    /\ wsTask' = [wsTask EXCEPT ![v] = "connecting"]
    /\ UNCHANGED <<wsConn, wsSubKeys, wsSubs, wsCallbacks, wsShutdown, wsRunning,
                   wsStop, wsIt, wsSnap, wsReplaySent, wsWire, wsOps, wsConnects>>

\* while not self._shutdown_event.is_set():
WSLoopTop(v) ==
    /\ UNCHANGED wsDelivered
    /\ wsTask[v] = "top"
    /\ wsTask' = [wsTask EXCEPT ![v] = IF wsShutdown THEN "done" ELSE "connecting"]
    /\ UNCHANGED <<wsConn, wsSubKeys, wsSubs, wsCallbacks, wsShutdown, wsRunning,
                   wsStop, wsIt, wsSnap, wsReplaySent, wsWire, wsOps, wsConnects>>

\* session.ws_connect(url) succeeded: the socket is stored and, with no
\* await in between, the loop over self.subscriptions[exchange] takes its
\* first symbol and writes the subscribe message; the task is then
\* suspended in send_json.
WSConnected(v) ==
    /\ UNCHANGED wsDelivered
    /\ wsTask[v] = "connecting"
    /\ wsConnects[v] < MaxConnects
    /\ wsConnects' = [wsConnects EXCEPT ![v] = @ + 1]
    /\ wsConn' = [wsConn EXCEPT ![v] = "open"]
    /\ wsSnap' = [wsSnap EXCEPT ![v] = wsSubs[v]]
    /\ IF v \in wsSubKeys /\ wsSubs[v] # {}
       THEN \E s \in wsSubs[v] :
              /\ wsIt' = [wsIt EXCEPT ![v] = [active |-> TRUE, left |-> wsSubs[v] \ {s},
                                              used |-> Cardinality(wsSubs[v])]]
              /\ wsReplaySent' = [wsReplaySent EXCEPT
                                    ![v] = [x \in Symbols |-> IF x = s THEN 1 ELSE 0]]
              /\ wsWire' = [wsWire EXCEPT
                              ![v] = [x \in Symbols |->
                                        [sub |-> IF x = s THEN 1 ELSE 0, unsub |-> 0]]]
              /\ wsTask' = [wsTask EXCEPT ![v] = "replay"]
       ELSE /\ wsIt' = [wsIt EXCEPT ![v] = NoIter]
            /\ wsReplaySent' = [wsReplaySent EXCEPT ![v] = [x \in Symbols |-> 0]]
            /\ wsWire' = [wsWire EXCEPT
                            ![v] = [x \in Symbols |-> [sub |-> 0, unsub |-> 0]]]
            /\ wsTask' = [wsTask EXCEPT ![v] = "recv"]
    /\ UNCHANGED <<wsSubKeys, wsSubs, wsCallbacks, wsShutdown, wsRunning, wsStop,
                   wsOps>>

\* session.ws_connect(url) raised: except Exception (line 150).
WSConnectFailed(v) ==
    /\ UNCHANGED wsDelivered
    /\ wsTask[v] = "connecting"
    /\ wsTask' = [wsTask EXCEPT ![v] = "after"]
    /\ UNCHANGED <<wsConn, wsSubKeys, wsSubs, wsCallbacks, wsShutdown, wsRunning,
                   wsStop, wsIt, wsSnap, wsReplaySent, wsWire, wsOps, wsConnects>>

\* send_json returns and `for symbol in self.subscriptions[exchange]`
\* takes its next turn: the iterator raises RuntimeError when the set
\* changed size, ends when nothing is left, and otherwise yields a symbol
\* whose subscribe message _subscribe_symbol writes if the socket is open.
WSReplayNext(v) ==
    /\ UNCHANGED wsDelivered
    /\ wsTask[v] = "replay"
    /\ IF Cardinality(wsSubs[v]) # wsIt[v].used
       THEN \* RuntimeError leaves both `async with` blocks
            /\ wsConn' = [wsConn EXCEPT ![v] = "closed"]
            /\ wsIt' = [wsIt EXCEPT ![v] = NoIter]
            /\ wsTask' = [wsTask EXCEPT ![v] = "after"]
            /\ UNCHANGED <<wsReplaySent, wsWire>>
       ELSE IF wsIt[v].left = {}
       THEN /\ wsIt' = [wsIt EXCEPT ![v] = NoIter]
            /\ wsTask' = [wsTask EXCEPT ![v] = "recv"]
            /\ UNCHANGED <<wsConn, wsReplaySent, wsWire>>
       ELSE \E s \in wsIt[v].left :
              /\ wsIt' = [wsIt EXCEPT ![v].left = @ \ {s}]
              /\ IF Live(v)
                 THEN /\ wsReplaySent' = [wsReplaySent EXCEPT ![v][s] = @ + 1]
                      /\ wsWire' = [wsWire EXCEPT ![v][s].sub = @ + 1]
                 ELSE UNCHANGED <<wsReplaySent, wsWire>>
              /\ UNCHANGED <<wsConn, wsTask>>
    /\ UNCHANGED <<wsSubKeys, wsSubs, wsCallbacks, wsShutdown, wsRunning, wsStop,
                   wsSnap, wsOps, wsConnects>>

\* The receive loop ends: a CLOSED or ERROR message, an exception while
\* receiving, or the shutdown flag; the socket is closed on the way out.
WSReceiveEnds(v) ==
    /\ UNCHANGED wsDelivered
    /\ wsTask[v] = "recv"
    /\ wsConn' = [wsConn EXCEPT ![v] = "closed"]
    /\ wsTask' = [wsTask EXCEPT ![v] = "after"]
    /\ UNCHANGED <<wsSubKeys, wsSubs, wsCallbacks, wsShutdown, wsRunning, wsStop,
                   wsIt, wsSnap, wsReplaySent, wsWire, wsOps, wsConnects>>

\* What json.loads and the "data" test of _handle_message make of a
\* message: a tick for a symbol, valid JSON without "data", or no JSON.
MessageShapes == {"tick", "nodata", "badjson"}

\* Mutant: no try around the single callback, so the first exception
\* leaves the loop.
DispatchUntilRaise(cbs, bad) ==
    LET failing == {i \in 1..Len(cbs) : i \in bad}
        last == IF failing = {} THEN Len(cbs)
                ELSE CHOOSE i \in failing : \A k \in failing : i <= k
    IN  [i \in 1..last |-> [callback |-> cbs[i], raised |-> i \in bad]]

\* for callback in self.callbacks[exchange][symbol]: try: await callback(..)
\* except Exception: log.  The calls made, in order, where the calls at the
\* positions in `bad` raise: an exception is logged and the loop goes on.
Dispatch(cbs, bad) ==
    [i \in 1..Len(cbs) |-> [callback |-> cbs[i], raised |-> i \in bad]]

\* msg = await ws.receive() yields a TEXT message and _handle_message
\* runs on it.  The callbacks run to their end without suspending, as the
\* price callbacks of the venue clients do; _handle_message catches every
\* Exception, so the receive loop goes on.
WSHandleMessage(v, s, shape, bad) ==
    /\ wsTask[v] = "recv"
    /\ Live(v)
    /\ LET cbs == wsCallbacks[v][s]
       IN  wsDelivered' = [shape |-> shape, venue |-> v, symbol |-> s,
                           registered |-> cbs,
                           invoked |-> IF shape = "tick" THEN Dispatch(cbs, bad)
                                       ELSE <<>>]
    /\ UNCHANGED <<wsConn, wsSubKeys, wsSubs, wsCallbacks, wsShutdown, wsRunning,
                   wsStop, wsTask, wsIt, wsSnap, wsReplaySent, wsWire, wsOps, wsConnects>>

\* Mutant: the task leaves its loop after any lost connection.
WSAfterConnectionGivesUp(v) ==
    /\ UNCHANGED wsDelivered
    /\ wsTask[v] = "after"
    /\ wsTask' = [wsTask EXCEPT ![v] = "done"]
    /\ UNCHANGED <<wsConn, wsSubKeys, wsSubs, wsCallbacks, wsShutdown, wsRunning,
                   wsStop, wsIt, wsSnap, wsReplaySent, wsWire, wsOps, wsConnects>>

\* if self._shutdown_event.is_set(): break, else the backoff sleep.
WSAfterConnection(v) ==
    /\ UNCHANGED wsDelivered
    /\ wsTask[v] = "after"
    /\ wsTask' = [wsTask EXCEPT ![v] = IF wsShutdown THEN "done" ELSE "backoff"]
    /\ UNCHANGED <<wsConn, wsSubKeys, wsSubs, wsCallbacks, wsShutdown, wsRunning,
                   wsStop, wsIt, wsSnap, wsReplaySent, wsWire, wsOps, wsConnects>>

\* await asyncio.sleep(delay) is over.
WSBackoffOver(v) ==
    /\ UNCHANGED wsDelivered
    /\ wsTask[v] = "backoff"
    /\ wsTask' = [wsTask EXCEPT ![v] = "top"]
    /\ UNCHANGED <<wsConn, wsSubKeys, wsSubs, wsCallbacks, wsShutdown, wsRunning,
                   wsStop, wsIt, wsSnap, wsReplaySent, wsWire, wsOps, wsConnects>>

\* The keys of self.connections.
ConnKeys(conn) == {v \in Venues : conn[v] # "absent"}

\* self.tasks.clear(), self.connections.clear(), self.subscriptions.clear(),
\* self.callbacks.clear(): the last lines of stop().
StopClear ==
    /\ wsTask' = [v \in Venues |-> "none"]
    /\ wsIt' = [v \in Venues |-> NoIter]
    /\ wsConn' = [v \in Venues |-> "absent"]
    /\ wsSubKeys' = {}
    /\ wsSubs' = [v \in Venues |-> {}]
    /\ wsCallbacks' = [v \in Venues |-> [s \in Symbols |-> <<>>]]
    /\ wsSnap' = [v \in Venues |-> {}]
    /\ wsReplaySent' = [v \in Venues |-> [s \in Symbols |-> 0]]
    /\ wsWire' = [v \in Venues |-> [s \in Symbols |-> [sub |-> 0, unsub |-> 0]]]
    /\ wsStop' = NoStop

\* stop() from a turn of `for exchange, ws in self.connections.items()`
\* to its next suspension: an open socket among the entries still to visit
\* is closed (await ws.close()); when none is left every task is cancelled
\* and, if there are tasks, stop() waits for them in gather; with no task
\* it runs through to the four clear() calls.
StopLoop(left, used) ==
    IF \E v \in left : wsConn[v] = "open"
    THEN \E v \in left :
           /\ wsConn[v] = "open"
           /\ wsConn' = [wsConn EXCEPT ![v] = "closed"]
           /\ wsStop' = [pc |-> "closing", left |-> left \ {v}, used |-> used]
           /\ UNCHANGED <<wsTask, wsIt, wsSubKeys, wsSubs, wsCallbacks, wsSnap,
                          wsReplaySent, wsWire>>
    ELSE IF \E v \in Venues : wsTask[v] # "none"
    THEN \* task.cancel() for every task: each ends at its await, its
         \* `async with` closing the socket it holds
         /\ wsTask' = [v \in Venues |-> IF wsTask[v] = "none" THEN "none" ELSE "done"]
         /\ wsConn' = [v \in Venues |-> IF wsConn[v] = "open" THEN "closed" ELSE wsConn[v]]
         /\ wsIt' = [v \in Venues |-> NoIter]
         /\ wsStop' = [pc |-> "gather", left |-> {}, used |-> 0]
         /\ UNCHANGED <<wsSubKeys, wsSubs, wsCallbacks, wsSnap, wsReplaySent, wsWire>>
    ELSE StopClear

\* stop() is called: the flags are set and the loop over the connections
\* starts.
WSStopBegin ==
    /\ UNCHANGED wsDelivered
    /\ wsStop.pc = "idle"
    /\ wsRunning' = FALSE
    /\ wsShutdown' = TRUE
    /\ StopLoop(ConnKeys(wsConn), Cardinality(ConnKeys(wsConn)))
    /\ UNCHANGED <<wsOps, wsConnects>>

\* ws.close() has returned and the loop over self.connections takes its
\* next turn: the dict iterator raises RuntimeError when an entry was added
\* meanwhile, and stop() ends with that exception.
WSStopResume ==
    /\ UNCHANGED wsDelivered
    /\ wsStop.pc = "closing"
    /\ IF Cardinality(ConnKeys(wsConn)) # wsStop.used
       THEN /\ wsStop' = [pc |-> "failed", left |-> {}, used |-> 0]
            /\ UNCHANGED <<wsConn, wsTask, wsIt, wsSubKeys, wsSubs, wsCallbacks, wsSnap,
                           wsReplaySent, wsWire>>
       ELSE StopLoop(wsStop.left, wsStop.used)
    /\ UNCHANGED <<wsShutdown, wsRunning, wsOps, wsConnects>>

\* gather(*self.tasks) has returned: the four clear() calls.
WSStopFinish ==
    /\ UNCHANGED wsDelivered
    /\ wsStop.pc = "gather"
    /\ StopClear
    /\ UNCHANGED <<wsShutdown, wsRunning, wsOps, wsConnects>>

\* The caller of a failed stop() sees the exception.
WSStopRaised ==
    /\ UNCHANGED wsDelivered
    /\ wsStop.pc = "failed"
    /\ wsStop' = NoStop
    /\ UNCHANGED <<wsConn, wsSubKeys, wsSubs, wsCallbacks, wsShutdown, wsRunning,
                   wsTask, wsIt, wsSnap, wsReplaySent, wsWire, wsOps, wsConnects>>

InitWS == RLInit /\ FnIdle /\ EngIdle /\ WSInit /\ RunIdle

\* The venue whose subscriptions and reconnects SpecWS explores.
OneVenue == {"binance"}

\* One venue with every interleaving of subscribe, unsubscribe, its
\* maintenance task and stop().
NextWS ==
    \/ \E v \in OneVenue, s \in Symbols, cb \in Callbacks : WSSubscribe(v, s, cb)
          /\ UNCHANGED <<rlVars, fnVars, engVars, runVars>>
    \/ \E v \in OneVenue, s \in Symbols, cb \in Callbacks \cup {NoCallback} :
          WSUnsubscribe(v, s, cb)
          /\ UNCHANGED <<rlVars, fnVars, engVars, runVars>>
    \/ \E v \in OneVenue : WSStart(v)
          /\ UNCHANGED <<rlVars, fnVars, engVars, runVars>>
    \/ \E v \in OneVenue : WSLoopTop(v)
          /\ UNCHANGED <<rlVars, fnVars, engVars, runVars>>
    \/ \E v \in OneVenue : WSConnected(v)
          /\ UNCHANGED <<rlVars, fnVars, engVars, runVars>>
    \/ \E v \in OneVenue : WSConnectFailed(v)
          /\ UNCHANGED <<rlVars, fnVars, engVars, runVars>>
    \/ \E v \in OneVenue : WSReplayNext(v)
          /\ UNCHANGED <<rlVars, fnVars, engVars, runVars>>
    \/ \E v \in OneVenue : WSReceiveEnds(v)
          /\ UNCHANGED <<rlVars, fnVars, engVars, runVars>>
    \/ \E v \in OneVenue : WSAfterConnection(v)
          /\ UNCHANGED <<rlVars, fnVars, engVars, runVars>>
    \/ \E v \in OneVenue : WSBackoffOver(v)
          /\ UNCHANGED <<rlVars, fnVars, engVars, runVars>>
    \/ WSStopBegin
          /\ UNCHANGED <<rlVars, fnVars, engVars, runVars>>
    \/ WSStopResume
          /\ UNCHANGED <<rlVars, fnVars, engVars, runVars>>
    \/ WSStopFinish
          /\ UNCHANGED <<rlVars, fnVars, engVars, runVars>>

SpecWS == InitWS /\ [][NextWS]_vars

\* The replay loop of the venue's latest connection is over, and no stop()
\* has intervened.
ReplayOver(v) ==
    /\ wsConnects[v] >= 2
    /\ ~wsShutdown
    /\ wsTask[v] \in {"recv", "after", "backoff", "top", "connecting"}

\* C3: after a venue connection is lost and re-established, the replay
\* sends a wire-level subscribe on the new connection exactly once for each
\* symbol that was in the venue's subscription set at reconnect time (none
\* is dropped, none is sent twice), and for no other symbol.
C3_ReplayExactlyOnce ==
    \A v \in Venues :
        ReplayOver(v)
            => \A s \in Symbols :
                  wsReplaySent[v][s] = IF s \in wsSnap[v] THEN 1 ELSE 0

\* The event loop runs every maintenance task that is ready: the loop test,
\* the test after a connection and the end of the backoff sleep are taken.
SpecWSFair ==
    /\ SpecWS
    /\ \A v \in OneVenue :
          /\ WF_vars(WSLoopTop(v) /\ UNCHANGED <<rlVars, fnVars, engVars, runVars>>)
          /\ WF_vars(WSAfterConnection(v) /\ UNCHANGED <<rlVars, fnVars, engVars, runVars>>)
          /\ WF_vars(WSBackoffOver(v) /\ UNCHANGED <<rlVars, fnVars, engVars, runVars>>)

\* C15: while the shutdown flag is not set, every loss of a venue
\* connection (close, error, exception, failed connect attempt) is
\* eventually followed by a new connect attempt for the venue, however
\* many attempts have failed before.
C15_AlwaysReconnects ==
    \A v \in OneVenue :
        (wsTask[v] = "after" /\ ~wsShutdown)
            ~> (wsTask[v] = "connecting" \/ wsShutdown)

\* A connect attempt is under way after an earlier connection of the venue
\* was lost, with the shutdown flag not set.
C15_Witness ==
    \E v \in Venues :
        /\ wsTask[v] = "connecting" /\ wsConn[v] = "closed"
        /\ wsConnects[v] >= 1 /\ ~wsShutdown

\* The symbol and the callback that SpecWSStop subscribes.
StopSymbols == {"s1"}

StopCallbacks == {"cb1"}

\* Both venues on one manager, with start(), the two maintenance tasks and
\* stop() in every interleaving.
NextWSStop ==
    \/ \E v \in Venues, s \in StopSymbols, cb \in StopCallbacks : WSSubscribe(v, s, cb)
          /\ UNCHANGED <<rlVars, fnVars, engVars, runVars>>
    \/ \E v \in Venues : WSStart(v)
          /\ UNCHANGED <<rlVars, fnVars, engVars, runVars>>
    \/ \E v \in Venues : WSLoopTop(v)
          /\ UNCHANGED <<rlVars, fnVars, engVars, runVars>>
    \/ \E v \in Venues : WSConnected(v)
          /\ UNCHANGED <<rlVars, fnVars, engVars, runVars>>
    \/ \E v \in Venues : WSConnectFailed(v)
          /\ UNCHANGED <<rlVars, fnVars, engVars, runVars>>
    \/ \E v \in Venues : WSReplayNext(v)
          /\ UNCHANGED <<rlVars, fnVars, engVars, runVars>>
    \/ \E v \in Venues : WSReceiveEnds(v)
          /\ UNCHANGED <<rlVars, fnVars, engVars, runVars>>
    \/ \E v \in Venues : WSAfterConnection(v)
          /\ UNCHANGED <<rlVars, fnVars, engVars, runVars>>
    \/ \E v \in Venues : WSBackoffOver(v)
          /\ UNCHANGED <<rlVars, fnVars, engVars, runVars>>
    \/ WSStopBegin
          /\ UNCHANGED <<rlVars, fnVars, engVars, runVars>>
    \/ WSStopResume
          /\ UNCHANGED <<rlVars, fnVars, engVars, runVars>>
    \/ WSStopFinish
          /\ UNCHANGED <<rlVars, fnVars, engVars, runVars>>
    \/ WSStopRaised
          /\ UNCHANGED <<rlVars, fnVars, engVars, runVars>>

SpecWSStop == InitWS /\ [][NextWSStop]_vars

\* C16: once the shutdown flag has been set by stop(), no maintenance task
\* begins another connect attempt for any venue, and a task that reaches
\* one of the loop's checks of the flag leaves its loop there.
C16_NoConnectAfterShutdown ==
    [][\A v \in Venues :
          wsShutdown
             => /\ wsTask[v] # "connecting" => wsTask'[v] # "connecting"
                /\ (wsTask[v] \in {"top", "after"} /\ wsTask'[v] # wsTask[v])
                      => wsTask'[v] \in {"done", "none"}]_vars

\* While stop() is still closing sockets, a task of another venue has met
\* the set flag at its check and has left its loop by itself.
C16_Witness ==
    \E v \in Venues :
        /\ wsShutdown /\ wsStop.pc = "closing"
        /\ wsTask[v] = "done"

\* The venue of the OKX client.
OkxVenue == {"okx"}

\* The OKX client and direct callers of the manager on the OKX
\* connection, with inbound messages, reconnects and stop().
NextWSClient ==
    \/ \E v \in OkxVenue, s \in Symbols, cb \in Callbacks : WSSubscribe(v, s, cb)
          /\ UNCHANGED <<rlVars, fnVars, engVars, runVars>>
    \/ \E s \in Symbols : OKXSubscribeToPrice(s)
          /\ UNCHANGED <<rlVars, fnVars, engVars, runVars>>
    \/ \E v \in OkxVenue, s \in Symbols, cb \in Callbacks \cup {NoCallback} :
          WSUnsubscribe(v, s, cb)
          /\ UNCHANGED <<rlVars, fnVars, engVars, runVars>>
    \/ \E s \in Symbols : OKXUnsubscribeFromPrice(s)
          /\ UNCHANGED <<rlVars, fnVars, engVars, runVars>>
    \/ \E v \in OkxVenue : WSStart(v)
          /\ UNCHANGED <<rlVars, fnVars, engVars, runVars>>
    \/ \E v \in OkxVenue : WSLoopTop(v)
          /\ UNCHANGED <<rlVars, fnVars, engVars, runVars>>
    \/ \E v \in OkxVenue : WSConnected(v)
          /\ UNCHANGED <<rlVars, fnVars, engVars, runVars>>
    \/ \E v \in OkxVenue : WSConnectFailed(v)
          /\ UNCHANGED <<rlVars, fnVars, engVars, runVars>>
    \/ \E v \in OkxVenue : WSReplayNext(v)
          /\ UNCHANGED <<rlVars, fnVars, engVars, runVars>>
    \/ \E v \in OkxVenue, s \in Symbols, shape \in MessageShapes,
           bad \in SUBSET (1..MaxCallbacks) : WSHandleMessage(v, s, shape, bad)
          /\ UNCHANGED <<rlVars, fnVars, engVars, runVars>>
    \/ \E v \in OkxVenue : WSReceiveEnds(v)
          /\ UNCHANGED <<rlVars, fnVars, engVars, runVars>>
    \/ \E v \in OkxVenue : WSAfterConnection(v)
          /\ UNCHANGED <<rlVars, fnVars, engVars, runVars>>
    \/ \E v \in OkxVenue : WSBackoffOver(v)
          /\ UNCHANGED <<rlVars, fnVars, engVars, runVars>>
    \/ WSStopBegin
          /\ UNCHANGED <<rlVars, fnVars, engVars, runVars>>
    \/ WSStopResume
          /\ UNCHANGED <<rlVars, fnVars, engVars, runVars>>
    \/ WSStopFinish
          /\ UNCHANGED <<rlVars, fnVars, engVars, runVars>>

SpecWSClient == InitWS /\ [][NextWSClient]_vars

\* C17: a subscribe call, made on the manager or through the OKX client,
\* registers the callback, and the number of wire-level subscribe messages
\* it sends for the symbol is one when the symbol had no callback and the
\* connection is live, and zero otherwise.
C17_SubscribeWire ==
    [][\A v \in Venues, s \in Symbols :
          ((\E cb \in Callbacks : WSSubscribe(v, s, cb))
              \/ (v = "okx" /\ OKXSubscribeToPrice(s)))
             => /\ Len(wsCallbacks'[v][s]) = Len(wsCallbacks[v][s]) + 1
                /\ wsWire'[v][s].sub - wsWire[v][s].sub
                      = IF wsCallbacks[v][s] = <<>> /\ Live(v) THEN 1 ELSE 0]_vars

\* C18: unsubscribe(venue, symbol, callback) that takes out the symbol's
\* last callback removes the symbol from the venue's subscription set and
\* sends one wire-level unsubscribe if the connection is live (none
\* otherwise); taking out a callback while others remain leaves the
\* subscription and sends nothing; and a replay after a connect sends a
\* subscribe only for symbols that are in the subscription set, so a
\* removed subscription is not replayed.
C18_UnsubscribeLast ==
    [][\A v \in Venues, s \in Symbols :
          /\ \A cb \in Callbacks :
                (WSUnsubscribe(v, s, cb) /\ InSeq(cb, wsCallbacks[v][s]))
                   => IF Len(wsCallbacks[v][s]) = 1
                      THEN /\ s \notin wsSubs'[v]
                           /\ wsWire'[v][s].unsub - wsWire[v][s].unsub
                                 = IF Live(v) THEN 1 ELSE 0
                      ELSE /\ s \in wsSubs'[v]
                           /\ wsSubs'[v] = wsSubs[v]
                           /\ wsWire'[v][s] = wsWire[v][s]
          /\ (WSConnected(v) /\ wsReplaySent'[v][s] > 0) => s \in wsSubs[v]
          /\ (WSReplayNext(v) /\ wsReplaySent'[v][s] > wsReplaySent[v][s])
                => s \in wsSubs[v]]_vars

\* s1 and s2 were subscribed, s1 lost its only callback, and the
\* connection made after that replayed s2 and not s1.
C18_Witness ==
    \E v \in OneVenue :
        /\ wsOps = 3 /\ wsConnects[v] = 2 /\ wsTask[v] = "recv" /\ Live(v)
        /\ wsCallbacks[v]["s1"] = <<>> /\ "s1" \notin wsSubs[v]
        /\ wsCallbacks[v]["s2"] # <<>>
        /\ wsSnap[v] = {"s2"}
        /\ wsReplaySent[v]["s1"] = 0 /\ wsReplaySent[v]["s2"] = 1

\* C19: for an inbound message for symbol s on a venue, the callbacks
\* invoked are exactly the callbacks registered for (venue, s) when the
\* message arrived, each registration once and in order, also when some of
\* the calls raise; and handling the message leaves the venue's connection
\* and its maintenance task as they were.
C19_CallbacksAllInvoked ==
    /\ [](wsDelivered.shape = "tick"
            => /\ Len(wsDelivered.invoked) = Len(wsDelivered.registered)
               /\ \A i \in 1..Len(wsDelivered.registered) :
                     wsDelivered.invoked[i].callback = wsDelivered.registered[i])
    /\ [][\A v \in Venues, s \in Symbols, bad \in SUBSET (1..MaxCallbacks) :
            WSHandleMessage(v, s, "tick", bad)
               => wsConn'[v] = "open" /\ wsTask'[v] = "recv"]_vars

\* A tick reached two registered callbacks although the first call raised.
C19_Witness ==
    /\ wsDelivered.shape = "tick"
    /\ Len(wsDelivered.registered) = 2
    /\ Len(wsDelivered.invoked) = 2
    /\ wsDelivered.invoked[1].raised
    /\ wsConn[wsDelivered.venue] = "open"

\* A step in which a stop() call returns to its caller.
StopReturns ==
    /\ WSStopBegin \/ WSStopResume \/ WSStopFinish
    /\ wsStop'.pc = "idle"

\* The manager as stop() leaves it: flag set, no socket, no task, empty maps.
Stopped ==
    /\ wsShutdown /\ ~wsRunning
    /\ \A v \in Venues : wsConn[v] = "absent" /\ wsTask[v] = "none" /\ wsSubs[v] = {}
    /\ wsSubKeys = {}
    /\ \A v \in Venues, s \in Symbols : wsCallbacks[v][s] = <<>>

\* C20: stop() never ends with an exception; when it returns the shutdown
\* flag is set, the sockets it held were closed, no maintenance task is
\* left and the connection, subscription and callback maps are empty,
\* whatever the venue connections were doing when it was called; and a
\* stop() on a stopped manager changes nothing.
C20_StopClearsEverything ==
    /\ [](wsStop.pc # "failed")
    /\ [][StopReturns => (\A v \in Venues : wsConn[v] # "open") /\ Stopped']_vars
    /\ [][(WSStopBegin /\ Stopped) => UNCHANGED wsVars]_vars

(***************************************************************************)
(* ArbitrageEngine.run / stop (arbitrage/arbitrage_engine.py) and          *)
(* shutdown_signal_handler (main.py).  One step of run() goes from the     *)
(* await it is suspended at to the next await.                             *)
(***************************************************************************)

BATCH_SIZE == 50

UPDATE_INTERVAL == 60

\* asyncio.sleep(1) between two batches.
BatchDelay == 1

\* asyncio.sleep(5) of the handler of the main loop.
ErrorDelay == 5

\* len(tokens) that get_available_tokens may return: none, one batch, one
\* full batch, two batches, three batches.
TokenCounts == {0, 1, BATCH_SIZE, BATCH_SIZE + 1, 2 * BATCH_SIZE + 1}

\* len(tokens[i:i + BATCH_SIZE])
BatchOf(i, n) == IF n - i < BATCH_SIZE THEN n - i ELSE BATCH_SIZE

\* The awaits of run() that are asyncio.sleep calls.
RunSleeps == {"batch_sleep", "interval", "empty_sleep", "error_sleep"}

\* run() suspends at `pc`; a sleep has `sleep` seconds to go.
RunAwait(pc, sleep) ==
    /\ rPc' = pc
    /\ rSleep' = sleep
    /\ UNCHANGED <<rRunning, rShutdown, rExit, rStop>>

\* Mutant: run() returns without its finally clause.
RunReturns(reason) ==
    /\ rPc' = "done"
    /\ rSleep' = 0
    /\ rExit' = reason
    /\ UNCHANGED <<rRunning, rShutdown, rStop>>

\* finally: await self.stop().  stop() sets both flags before its first
\* await, in the step that leaves the loop.
RunFinally(reason) ==
    /\ rPc' = "stopping"
    /\ rSleep' = 0
    /\ rExit' = reason
    /\ rRunning' = FALSE
    /\ rShutdown' = TRUE
    /\ rStop' = "begun"

\* Mutant: the main loop starts a cycle whatever the flags say.
RunWhileIgnoresShutdown == RunAwait("tokens", 0)

\* while self._running and not self._shutdown_event.is_set():
\*     tokens = await self.get_available_tokens()
RunWhile ==
    IF rRunning /\ ~rShutdown
    THEN RunAwait("tokens", 0)
    ELSE RunFinally("shutdown")

\* for i in range(0, len(tokens), BATCH_SIZE): the head of the batch loop
\* at index i; after the loop, or after its break, sleep(UPDATE_INTERVAL).
RunFor(i, n) ==
    /\ rTokens' = n
    /\ rI' = i
    /\ IF i < n /\ ~(~rRunning \/ rShutdown)
       THEN /\ RunAwait("batch", 0)
            /\ rJ' = 0
            /\ rFailed' = FALSE
       ELSE /\ RunAwait("interval", UPDATE_INTERVAL)
            /\ UNCHANGED <<rJ, rFailed>>

\* Mutant: the handler of the main loop gives up.
RunExceptEndsLoop == RunFinally("cycle_error")

\* except Exception as e: logger.error(...); await asyncio.sleep(5)
RunExcept == RunAwait("error_sleep", ErrorDelay)

\* main() awaits engine.run(): run() starts and awaits self.db.init().
RunStart ==
    /\ rPc = "idle"
    /\ RunAwait("db_init", 0)
    /\ UNCHANGED <<rTokens, rI, rJ, rFailed, sPc>>

\* db.init() returns or raises.  After it the two WebSocket clients are
\* started, which suspends nowhere, and _test_notification is entered.
RunDbInit(outcome) ==
    /\ rPc = "db_init"
    /\ IF outcome = "ok"
       THEN RunAwait("test_notification", 0)
       ELSE RunFinally("db_init")
    /\ UNCHANGED <<rTokens, rI, rJ, rFailed, sPc>>

\* What _test_notification meets: nothing, db.init() raising,
\* db.get_summary_stats() raising, notifier.send_message returning False.
TestNotificationOutcomes == {"ok", "db_init", "summary_stats", "not_sent"}

\* _test_notification re-raises what it caught; a message that was not
\* sent is only logged.  Then the main loop is entered.
RunTestNotification(outcome) ==
    /\ rPc = "test_notification"
    /\ IF outcome \in {"ok", "not_sent"}
       THEN RunWhile
       ELSE RunFinally(outcome)
    /\ UNCHANGED <<rTokens, rI, rJ, rFailed, sPc>>

\* get_available_tokens returns n tokens (none when it caught an exception
\* of its own), or an exception leaves it.
RunTokens(n, raises) ==
    /\ rPc = "tokens"
    /\ IF raises
       THEN RunExcept /\ UNCHANGED <<rTokens, rI, rJ, rFailed>>
       ELSE IF n = 0
       THEN /\ RunAwait("empty_sleep", UPDATE_INTERVAL)
            /\ rTokens' = 0
            /\ UNCHANGED <<rI, rJ, rFailed>>
       ELSE RunFor(0, n)
    /\ UNCHANGED sPc

\* process_token_batch: the processing of one token of the batch returns
\* or raises; `except Exception: continue` goes on with the next token.
\* After the last token the batch is done and run() sleeps BatchDelay.
RunToken(raises) ==
    /\ rPc = "batch"
    /\ rJ < BatchOf(rI, rTokens)
    /\ rJ' = rJ + 1
    /\ rFailed' = (rFailed \/ raises)
    /\ IF rJ + 1 = BatchOf(rI, rTokens)
       THEN RunAwait("batch_sleep", BatchDelay)
       ELSE RunAwait("batch", 0)
    /\ UNCHANGED <<rTokens, rI, sPc>>

\* An exception leaves process_token_batch (raised outside the handler of
\* its token loop).
RunBatchRaises ==
    /\ rPc = "batch"
    /\ RunExcept
    /\ UNCHANGED <<rTokens, rI, rJ, rFailed, sPc>>

\* One second of an asyncio.sleep passes.
RunSleepTick ==
    /\ rPc \in RunSleeps
    /\ rSleep > 0
    /\ rSleep' = rSleep - 1
    /\ UNCHANGED <<rPc, rRunning, rShutdown, rTokens, rI, rJ, rFailed, rExit, rStop, sPc>>

\* The sleep between two batches is over: next index of the batch loop.
RunBatchSleepOver ==
    /\ rPc = "batch_sleep"
    /\ rSleep = 0
    /\ RunFor(rI + BATCH_SIZE, rTokens)
    /\ UNCHANGED sPc

\* The sleep at the end of a cycle, of a cycle without tokens, or of the
\* handler is over: back to the condition of the main loop.
RunCycleOver ==
    /\ rPc \in {"interval", "empty_sleep", "error_sleep"}
    /\ rSleep = 0
    /\ RunWhile
    /\ UNCHANGED <<rTokens, rI, rJ, rFailed, sPc>>

\* CancelledError is thrown into run() at its await.  Inside the loop's try
\* `except asyncio.CancelledError: break` catches it; elsewhere no handler
\* does (it is no Exception); both ways lead to the finally clause.  In
\* the finally clause it interrupts stop().
RunThrowCancelled ==
    /\ rPc \notin {"idle", "done"}
    /\ IF rPc = "stopping"
       THEN /\ rPc' = "done"
            /\ rStop' = "interrupted"
            /\ UNCHANGED <<rSleep, rExit, rRunning, rShutdown>>
       ELSE RunFinally("cancelled")
    /\ UNCHANGED <<rTokens, rI, rJ, rFailed>>

\* The task that runs run() is cancelled by someone else than the handler.
RunCancel ==
    /\ RunThrowCancelled
    /\ UNCHANGED sPc

\* The stop() of the finally clause returns or raises (an exception of
\* binance_ws.stop() or okx_ws.stop() leaves it): run() is over.
RunStopEnd(raises) ==
    /\ rPc = "stopping"
    /\ rPc' = "done"
    /\ rStop' = IF raises THEN "raised" ELSE "returned"
    /\ UNCHANGED <<rSleep, rExit, rRunning, rShutdown, rTokens, rI, rJ, rFailed, sPc>>

\* A signal arrives: shutdown_signal_handler calls engine.stop(), which
\* sets both flags and suspends.
SignalStop ==
    /\ sPc = "idle"
    /\ rPc # "idle"
    /\ sPc' = "stopping"
    /\ rRunning' = FALSE
    /\ rShutdown' = TRUE
    /\ UNCHANGED <<rPc, rSleep, rTokens, rI, rJ, rFailed, rExit, rStop>>

\* The handler's engine.stop() returns: every other task is cancelled, the
\* one running run() among them.  When it raises the handler logs it and
\* cancels nothing.
SignalStopEnd(raises) ==
    /\ sPc = "stopping"
    /\ sPc' = "done"
    /\ IF ~raises /\ rPc # "done"
       THEN RunThrowCancelled
       ELSE UNCHANGED <<rPc, rSleep, rTokens, rI, rJ, rFailed, rExit, rStop,
                        rRunning, rShutdown>>

InitRun == RLInit /\ FnIdle /\ EngIdle /\ WSInit /\ RunIdle

NextRun ==
    \/ /\ RunStart
       /\ UNCHANGED <<rlVars, fnVars, engVars, wsVars>>
    \/ /\ \E outcome \in {"ok", "raise"} : RunDbInit(outcome)
       /\ UNCHANGED <<rlVars, fnVars, engVars, wsVars>>
    \/ /\ \E outcome \in TestNotificationOutcomes : RunTestNotification(outcome)
       /\ UNCHANGED <<rlVars, fnVars, engVars, wsVars>>
    \/ /\ \E n \in TokenCounts, raises \in BOOLEAN : RunTokens(n, raises)
       /\ UNCHANGED <<rlVars, fnVars, engVars, wsVars>>
    \/ /\ \E raises \in BOOLEAN : RunToken(raises)
       /\ UNCHANGED <<rlVars, fnVars, engVars, wsVars>>
    \/ /\ RunBatchRaises
       /\ UNCHANGED <<rlVars, fnVars, engVars, wsVars>>
    \/ /\ RunSleepTick
       /\ UNCHANGED <<rlVars, fnVars, engVars, wsVars>>
    \/ /\ RunBatchSleepOver
       /\ UNCHANGED <<rlVars, fnVars, engVars, wsVars>>
    \/ /\ RunCycleOver
       /\ UNCHANGED <<rlVars, fnVars, engVars, wsVars>>
    \/ /\ RunCancel
       /\ UNCHANGED <<rlVars, fnVars, engVars, wsVars>>
    \/ /\ \E raises \in BOOLEAN : RunStopEnd(raises)
       /\ UNCHANGED <<rlVars, fnVars, engVars, wsVars>>
    \/ /\ SignalStop
       /\ UNCHANGED <<rlVars, fnVars, engVars, wsVars>>
    \/ /\ \E raises \in BOOLEAN : SignalStopEnd(raises)
       /\ UNCHANGED <<rlVars, fnVars, engVars, wsVars>>

SpecRun == InitRun /\ [][NextRun]_vars

\* C21: whichever way run() leaves its main loop or its startup (shutdown
\* flag, exception, cancellation), the stop() of its finally clause has
\* been entered, and has set both flags, before run() is over.
C21_StopBeforeRunEnds ==
    /\ rExit # "none" => rStop # "no"
    /\ rPc = "done" => /\ rExit # "none"
                       /\ rStop \in {"returned", "raised", "interrupted"}
                       /\ rShutdown /\ ~rRunning

\* run() was cancelled in its loop and ended after stop() returned.
C21_Witness ==
    /\ rPc = "done"
    /\ rExit = "cancelled"
    /\ rStop = "returned"

\* C22: once the shutdown flag is set while run() is in the sleep between
\* two cycles, run() waits no further second of that sleep.
C22_ShutdownEndsIntervalSleep ==
    [][(rShutdown /\ rPc = "interval") => ~(rPc' = "interval" /\ rSleep' < rSleep)]_vars

\* A step that starts the processing of a batch.
BatchStarts == rPc' = "batch" /\ (rPc # "batch" \/ rJ' < rJ)

\* A step that starts a cycle of the main loop.
CycleStarts == rPc' = "tokens" /\ rPc # "tokens"

\* C23: once the shutdown flag is set no batch is started and no cycle of
\* the main loop is begun; the flag, once set, stays set.
C23_NoBatchAfterShutdown ==
    [][rShutdown => /\ ~BatchStarts
                    /\ ~CycleStarts
                    /\ rShutdown' /\ ~rRunning']_vars

\* The pre-batch check has ended a cycle with batches left: run() is in the
\* sleep after the batch loop, the flag is set, and index i is inside tokens.
C23_Witness ==
    /\ rShutdown
    /\ rPc = "interval"
    /\ rI < rTokens
    /\ rI > 0

\* The event loop fires the timers of the sleeps: seconds pass and a sleep
\* that is over resumes run().
SpecRunFair ==
    /\ SpecRun
    /\ WF_vars(RunSleepTick /\ UNCHANGED <<rlVars, fnVars, engVars, wsVars>>)
    /\ WF_vars(RunCycleOver /\ UNCHANGED <<rlVars, fnVars, engVars, wsVars>>)

\* A step in which an exception leaves get_available_tokens or
\* process_token_batch.
CycleRaises == RunBatchRaises \/ \E n \in TokenCounts : RunTokens(n, TRUE)

\* C24: an exception raised in a cycle is caught and sends run() into the
\* sleep of ErrorDelay seconds, not out of the loop; that sleep is left
\* for a new cycle unless shutdown was signalled or the task cancelled, and
\* it is left; an exception while one token is processed lets the batch go
\* on with the next token, and a batch is done only when all its tokens
\* were attempted.
C24_CycleErrorDoesNotEndEngine ==
    /\ [][CycleRaises => /\ rPc' = "error_sleep" /\ rSleep' = ErrorDelay
                         /\ rExit' = rExit /\ rStop' = rStop
                         /\ rRunning' = rRunning /\ rShutdown' = rShutdown]_vars
    /\ [][(rPc = "error_sleep" /\ rPc' # "error_sleep") =>
              IF rShutdown
              THEN rPc' = "stopping"
              ELSE rPc' = "tokens" \/ (rPc' = "stopping" /\ rExit' = "cancelled")]_vars
    /\ [][RunToken(TRUE) => /\ rJ' = rJ + 1
                            /\ rPc' \in {"batch", "batch_sleep"}]_vars
    /\ [][(rPc = "batch" /\ rPc' = "batch_sleep") => rJ' = BatchOf(rI, rTokens)]_vars
    /\ (rPc = "error_sleep") ~> (rPc = "tokens" \/ rShutdown)

\* A token of the batch raised, the batch went on, then an exception left
\* the batch; the handler's sleep is over and shutdown was not signalled.
C24_Witness ==
    /\ rPc = "error_sleep"
    /\ rSleep = 0
    /\ ~rShutdown
    /\ rFailed
    /\ rJ >= 2

\* C25: run() leaves its startup and its loop only because shutdown was
\* signalled or its task was cancelled; a failure of db.init(), of
\* db.get_summary_stats() or of the startup notification does not end it.
C25_RunEndsOnlyOnShutdown == rExit \in {"none", "shutdown", "cancelled"}

(***************************************************************************)
(* ArbitrageEngine.stop / _cleanup: what one call closes.                  *)
(***************************************************************************)

\* The venue adapters of cex_manager.exchanges.
Adapters == {Exchanges[i] : i \in 1..Len(Exchanges)}

\* The collaborators of the engine that hold an aiohttp session.
SessionHolders == Adapters \cup {"jupiter", "dexscreener", "notifier"}

\* stop() on a world: `held` are the collaborators with an open session,
\* `fail` the one whose session.close() raises (or "none"), `wsRaises`
\* whether ws_manager.stop(), reached through binance_ws.stop(), raises
\* (once it has returned, the two later calls find empty maps), `pending`
\* whether the close() calls that asyncio.gather started next to a failing
\* one are still running when gather raises.
\*   await self.binance_ws.stop(); await self.okx_ws.stop()
\*   _cleanup: try: ws_manager.stop(); jupiter.close(); cex_manager.close()
\*             except Exception: log
\* close() is called on self.jupiter and, by cex_manager.close(), on every
\* adapter; on self.dex and self.notifier it is not.
EngineStop(w) ==
    LET jupiterFails == "jupiter" \in w.held /\ w.fail = "jupiter"
        adapterFails == w.fail \in (Adapters \cap w.held)
        jupiterClosed == IF jupiterFails THEN {} ELSE {"jupiter"} \cap w.held
        adaptersClosed ==
            IF jupiterFails THEN {}
            ELSE IF adapterFails
            THEN IF w.pending THEN {} ELSE (Adapters \cap w.held) \ {w.fail}
            ELSE Adapters \cap w.held
    IN  IF w.wsRaises
        THEN [returned |-> FALSE, shutdown |-> TRUE, running |-> FALSE,
              ws_stopped |-> FALSE, closed |-> {}, logged |-> FALSE]
        ELSE [returned |-> TRUE, shutdown |-> TRUE, running |-> FALSE,
              ws_stopped |-> TRUE, closed |-> jupiterClosed \cup adaptersClosed,
              logged |-> (jupiterFails \/ adapterFails)]

EngineStopInit ==
    /\ fnIn \in [held : SUBSET SessionHolders,
                  fail : SessionHolders \cup {"none"},
                  wsRaises : BOOLEAN,
                  pending : BOOLEAN]
    /\ fnOut = None

EngineStopCall ==
    /\ fnOut = None
    /\ fnOut' = Val(EngineStop(fnIn))
    /\ UNCHANGED fnIn

InitEngineStop == RLInit /\ EngineStopInit /\ EngIdle /\ WSInit /\ RunIdle

NextEngineStop == EngineStopCall /\ UNCHANGED <<rlVars, engVars, wsVars, runVars>>

SpecEngineStop == InitEngineStop /\ [][NextEngineStop]_vars

\* C29: when stop() returns, the shutdown flag is set, the WebSocket
\* manager has been stopped and every collaborator that held a session
\* (each adapter, Jupiter, DexScreener, the notifier) has been closed,
\* except one whose own close() failed, and that failure was logged.
C29_StopClosesEveryResource ==
    (fnOut # None /\ fnOut.v.returned) =>
        /\ fnOut.v.shutdown /\ ~fnOut.v.running
        /\ fnOut.v.ws_stopped
        /\ (fnIn.held \ {fnIn.fail}) \subseteq fnOut.v.closed
        /\ (fnIn.fail \in fnIn.held) => fnOut.v.logged

(***************************************************************************)
(* process_token_batch: the CEX-DEX phase and the batch counter.           *)
(***************************************************************************)

\* C39: a token that is finished, none of whose CEX-CEX pairs qualifies
\* and for which DexScreener returned a Solana pair whose price qualifies
\* against a CEX spot or futures price, has a CEX-DEX opportunity reported.
C39_SolanaDexReported ==
    (/\ ePc = "next"
     /\ ~SomeCexPair("spot") /\ ~SomeCexPair("futures")
     /\ SomeDexPair
     /\ eDexWorld.v.network = Upper("solana"))
        => \E i \in 1..Len(eNotes) : eNotes[i].kind = "dex"

\* What the DEX phase reports for the current token when its own data alone
\* decide, that is with no opportunity counted before it.
DexReportsAlone ==
    /\ DexEligible(0, eDexWorld)
    /\ \/ FirstDexMatch(FilterPrices(ePrices.spot), eDexWorld.v.price, 1) # 0
       \/ FirstDexMatch(FilterPrices(ePrices.futures), eDexWorld.v.price, 1) # 0

\* C34: what is reported for a token does not depend on opportunities
\* found for earlier tokens of the batch: the two places that read the
\* batch counter decide as the token's own findings alone would have them
\* decide.  The futures pairs are examined iff nothing was reported for
\* this token in the spot phase, and the DEX phase reports exactly what it
\* reports with the counter at zero.
C34_ReportIndependentOfEarlierTokens ==
    /\ [][ESpotDone => ((ePc' = "futures") <=> (eNotes = <<>>))]_vars
    /\ [][EDex => ((eNotes' # eNotes) <=> DexReportsAlone)]_vars

(***************************************************************************)
(* WebSocketManager: subscriptions against callbacks, venues against each  *)
(* other, calls during the replay.                                         *)
(***************************************************************************)

\* C35: in every state, between calls and at every await inside
\* subscribe, unsubscribe and stop, a symbol is in a venue's subscription
\* set iff at least one callback is registered for that venue and symbol.
C35_SubscribedIffCallback ==
    \A v \in Venues, s \in Symbols :
        (s \in wsSubs[v]) <=> (wsCallbacks[v][s] # <<>>)

\* stop() is suspended (a socket is closing or the tasks are awaited)
\* after subscribe and unsubscribe calls: one symbol is subscribed with a
\* callback, another has neither.
C35_Witness ==
    /\ wsStop.pc \in {"closing", "gather"}
    /\ wsOps >= 2
    /\ \E v \in Venues, s, t \in Symbols :
          /\ s \in wsSubs[v] /\ wsCallbacks[v][s] # <<>>
          /\ t \notin wsSubs[v] /\ wsCallbacks[v][t] = <<>>

\* BinanceWebSocket.stop(): `await self.ws_manager.stop()`, a step of the
\* stop() of the manager the client was constructed with.
BinanceWebSocketStop == WSStopBegin \/ WSStopResume \/ WSStopFinish

\* C36: BinanceWebSocket.stop() leaves the connection, the maintenance
\* task, the subscriptions and the callbacks of every other venue of the
\* shared manager as they were.
C36_StopLeavesOtherVenues ==
    [][BinanceWebSocketStop =>
          \A v \in Venues \ {"binance"} :
              /\ wsConn'[v] = wsConn[v]
              /\ wsTask'[v] = wsTask[v]
              /\ wsSubs'[v] = wsSubs[v]
              /\ wsCallbacks'[v] = wsCallbacks[v]]_vars

\* C37: calls of subscribe() and unsubscribe() during a venue's replay do
\* not disturb it: no turn of the replay loop ends it with an error or
\* takes the connection down, and once the replay is over and the socket
\* is open every active symbol has had exactly one wire-level subscribe
\* per activation on that connection (one more than it has had
\* unsubscribes).
C37_ReplayUndisturbed ==
    /\ [][\A v \in Venues :
             WSReplayNext(v) => /\ wsTask'[v] \in {"replay", "recv"}
                                /\ wsConn'[v] = wsConn[v]]_vars
    /\ [](\A v \in Venues :
             (wsTask[v] = "recv" /\ Live(v))
                 => \A s \in wsSubs[v] : wsWire[v][s].sub = wsWire[v][s].unsub + 1)

(***************************************************************************)
(* The price calls of a venue adapter (cex/binance.py get_spot_price and   *)
(* get_futures_price; the other adapters have the same shape).             *)
(***************************************************************************)

PriceMethods == {"get_spot_price", "get_futures_price"}

\* What the venue does with one HTTP request: it answers with a status, or
\* the request raises (asyncio.TimeoutError, aiohttp.ClientError).
Responses == {"200", "404", "429", "500", "TimeoutError", "ClientError"}

\* The failures that are transient: timeout, connection error, 429, 5xx.
Transient(r) == r \in {"429", "500", "TimeoutError", "ClientError"}

\* get_spot_price / get_futures_price: one session.get; status 200 yields
\* the price of that answer, any other status and any exception is logged
\* and None is returned.  responses[i] is what the i-th request would get.
GetPrice(method, responses) ==
    [requests |-> 1,
     result |-> IF responses[1] = "200" THEN Val(1) ELSE None]

AdapterCallInit ==
    /\ fnIn \in [method : PriceMethods, responses : [1..RetryWorldLen -> Responses]]
    /\ fnOut = None

AdapterCall ==
    /\ fnOut = None
    /\ fnOut' = Val(GetPrice(fnIn.method, fnIn.responses))
    /\ UNCHANGED fnIn

InitAdapterCall == RLInit /\ AdapterCallInit /\ EngIdle /\ WSInit /\ RunIdle

NextAdapterCall == AdapterCall /\ UNCHANGED <<rlVars, engVars, wsVars, runVars>>

SpecAdapterCall == InitAdapterCall /\ [][NextAdapterCall]_vars

\* The attempt that ends a call which retries transient failures: the first
\* one among max_retries that is answered other than with a transient
\* failure, the last one when all fail transiently.
LastAttempt(responses) ==
    LET d == {i \in 1..max_retries : ~Transient(responses[i])}
    IN  IF d = {} THEN max_retries ELSE CHOOSE i \in d : \A j \in d : i <= j

\* C31: a price call of an adapter whose request fails with a transient
\* error (timeout, connection error, HTTP 429 or 5xx) is attempted again,
\* up to max_retries attempts in total, before the adapter reports no data:
\* the call sends requests up to the first one that does not fail
\* transiently and returns the price when that one is answered with 200.
C31_TransientFailureRetried ==
    fnOut # None =>
        LET k == LastAttempt(fnIn.responses)
        IN  /\ fnOut.v.requests = k
            /\ fnOut.v.result = IF fnIn.responses[k] = "200" THEN Val(k) ELSE None

(***************************************************************************)
(* CEXManager.get_all_exchange_symbols (cex/manager.py).  The state of the *)
(* manager is kept in fnOut, the answers the adapters would give to the    *)
(* call being made in fnIn.                                                *)
(***************************************************************************)

\* Calls of get_all_exchange_symbols that are modelled.
MaxSymbolCalls == 3

\* What get_spot_symbols / get_futures_symbols of one adapter yields: a
\* list of symbols, or an exception that gather hands back as a result.
SymbolLookupOutcomes == {Val(l) : l \in (SUBSET Symbols) \ {{}}} \cup {Raise}

SymbolWorlds == [Venues -> [spot : SymbolLookupOutcomes, futures : SymbolLookupOutcomes]]

\* A lookup that raised counts as the empty list.
SymbolsOrEmpty(o) == IF o = Raise THEN {} ELSE o.v

\* combined_symbols = list(set(spot_symbols + futures_symbols)) of each
\* exchange, a failed lookup replaced by [].
CombinedSymbols(world) ==
    [v \in Venues |-> SymbolsOrEmpty(world[v].spot) \cup SymbolsOrEmpty(world[v].futures)]

\* Some lookup of the computation failed.
LookupFailed(world) ==
    \E v \in Venues : world[v].spot = Raise \/ world[v].futures = Raise

\* Mutant: the cached map is never found.
HasCachedSymbolsNever(m) == FALSE

\* hasattr(self, '_cached_symbols')
HasCachedSymbols(m) == m.cached_symbols # None

\* The manager after __init__: no _cached_symbols attribute, no adapter
\* queried, nothing returned.  `failed` records whether a lookup of the
\* computation that filled the cache failed.
SymbolsInit ==
    /\ fnIn = None
    /\ fnOut = [cached_symbols |-> None,
                queries |-> [v \in Venues |-> 0],
                failed |-> FALSE,
                returned |-> <<>>]

\* One call of get_all_exchange_symbols(), from its start to its return,
\* in a world where the adapters would answer as `world` says.
GetAllExchangeSymbols(world) ==
    /\ Len(fnOut.returned) < MaxSymbolCalls
    /\ fnIn' = world
    /\ IF HasCachedSymbols(fnOut)
       THEN fnOut' = [fnOut EXCEPT !.returned = Append(@, fnOut.cached_symbols.v)]
       ELSE LET exchange_symbols == CombinedSymbols(world)
            IN  fnOut' = [cached_symbols |-> Val(exchange_symbols),
                          queries |-> [v \in Venues |-> fnOut.queries[v] + 2],
                          failed |-> LookupFailed(world),
                          returned |-> Append(fnOut.returned, exchange_symbols)]

InitSymbols == RLInit /\ SymbolsInit /\ EngIdle /\ WSInit /\ RunIdle

NextSymbols ==
    \E world \in SymbolWorlds :
        GetAllExchangeSymbols(world) /\ UNCHANGED <<rlVars, engVars, wsVars, runVars>>

SpecSymbols == InitSymbols /\ [][NextSymbols]_vars

\* C32: once the first call of get_all_exchange_symbols() has returned,
\* every later call returns that same venue-to-symbols map and queries no
\* adapter (each adapter has been asked for its spot and its futures
\* symbols once), also when a lookup failed during the first computation.
C32_SymbolsCachedAfterFirstCall ==
    Len(fnOut.returned) >= 1 =>
        /\ \A i \in 1..Len(fnOut.returned) : fnOut.returned[i] = fnOut.returned[1]
        /\ \A v \in Venues : fnOut.queries[v] = 2

\* A later call returned the map of a first computation in which a lookup
\* failed, in a world where every lookup would succeed and would yield
\* another map.
C32_Witness ==
    /\ Len(fnOut.returned) >= 2
    /\ fnOut.failed
    /\ ~LookupFailed(fnIn)
    /\ CombinedSymbols(fnIn) # fnOut.returned[Len(fnOut.returned)]
    /\ fnOut.returned[Len(fnOut.returned)] = fnOut.returned[1]

(***************************************************************************)
(* Several RateLimiter instances (utils/rate_limiter.py __init__, created  *)
(* by BaseCEX.__init__ and DexScreener.__init__): every adapter has its    *)
(* own.  Here each caller is an adapter of the venue okx with the limiter  *)
(* it constructed, and `requests` maps the adapter to the `requests` dict  *)
(* of its limiter.                                                         *)
(***************************************************************************)

\* RateLimiter.__init__ of every instance: self.requests = defaultdict(list).
LimitersInit ==
    /\ now = 0
    /\ requests = [c \in Callers |-> [k \in Keys |-> <<>>]]
    /\ callers = [c \in Callers |-> Idle]
    /\ calls = 0

\* acquire(key, weight) on the dict `reqs` of one instance, from the point
\* where it runs _acquire_limit on `cur` until it suspends or returns: the
\* dict it leaves and the state of the calling task.
AcquireOn(reqs, key, cur, weight, t) ==
    LET r1 == AcquireLimit(reqs[cur], cur, weight, t)
        reqs1 == [reqs EXCEPT ![cur] = r1.reqs]
        ip == IpKeyOf(key)
        Suspended(r, k) ==
            [st |-> IF r.outcome = "sleep" THEN "sleeping" ELSE "raised",
             key |-> key, cur |-> k, weight |-> weight, wake |-> r.wake]
    IN  IF r1.outcome # "admitted"
        THEN [reqs |-> reqs1, caller |-> Suspended(r1, cur)]
        ELSE IF cur = key /\ ip # NoKey
        THEN LET r2 == AcquireLimit(reqs1[ip], ip, weight, t)
             IN  [reqs |-> [reqs1 EXCEPT ![ip] = r2.reqs],
                  caller |-> IF r2.outcome = "admitted" THEN Idle ELSE Suspended(r2, ip)]
        ELSE [reqs |-> reqs1, caller |-> Idle]

\* Adapter c calls self.rate_limiter.acquire(key, weight).
LimiterAcquire(c, key, weight) ==
    /\ callers[c].st = "idle"
    /\ calls < MaxCalls
    /\ calls' = calls + 1
    /\ LET r == AcquireOn(requests[c], key, key, weight, now)
       IN  /\ requests' = [requests EXCEPT ![c] = r.reqs]
           /\ callers' = [callers EXCEPT ![c] = r.caller]
    /\ UNCHANGED now

\* The sleep of adapter c's acquire is over.
LimiterWake(c) ==
    /\ callers[c].st = "sleeping"
    /\ now >= callers[c].wake
    /\ LET r == AcquireOn(requests[c], callers[c].key, callers[c].cur,
                          callers[c].weight, now)
       IN  /\ requests' = [requests EXCEPT ![c] = r.reqs]
           /\ callers' = [callers EXCEPT ![c] = r.caller]
    /\ UNCHANGED <<now, calls>>

InitLimiters == LimitersInit /\ FnIdle /\ EngIdle /\ WSInit /\ RunIdle

NextLimiters ==
    \/ \E c \in Callers, key \in CallKeys, w \in 1..MaxWeight : LimiterAcquire(c, key, w)
          /\ UNCHANGED <<fnVars, engVars, wsVars, runVars>>
    \/ \E c \in Callers : LimiterWake(c)
          /\ UNCHANGED <<fnVars, engVars, wsVars, runVars>>
    \/ \E c \in Callers : RLReturnError(c)
          /\ UNCHANGED <<fnVars, engVars, wsVars, runVars>>
    \/ RLTick
          /\ UNCHANGED <<fnVars, engVars, wsVars, runVars>>

SpecLimiters == InitLimiters /\ [][NextLimiters]_vars

\* Number of timestamps the limiter of adapter c holds for the key that lie
\* within the key's window now.
CountInWindowOf(c, key) ==
    Cardinality({i \in 1..Len(requests[c][key]) :
                    now - requests[c][key][i] <= RateLimitOf(key).time_window})

\* C33: the ip limit of a venue is shared by all RateLimiter instances: the
\* requests admitted for the venue through the limiters of different
\* adapters count against one ip window, so that their combined number
\* within the window never exceeds the venue's ip limit.
C33_IpWindowSharedAcrossInstances ==
    CountInWindowOf("c1", "okx_ip") + CountInWindowOf("c2", "okx_ip")
        <= RateLimitOf("okx_ip").max_requests

(***************************************************************************)
(* The HTTP requests of one venue adapter (cex/binance.py; the methods of  *)
(* the other adapters have the same shape) behind its RateLimiter.  Each   *)
(* caller is a task running one adapter method; fnIn[c] is the method task *)
(* c is in ("-" when in none), fnOut the requests sent so far, each with   *)
(* the time it was sent and the kind of endpoint it went to.               *)
(***************************************************************************)

AdapterMethods == {"get_spot_price", "get_24h_volume", "get_deposit_withdraw_info"}

\* The key the method acquires: market_rate_limit_key, or
\* private_rate_limit_key for get_deposit_withdraw_info.
MethodKey(m) ==
    IF m = "get_deposit_withdraw_info" THEN "okx_private" ELSE "okx_market"

\* The session.get calls the method makes once its acquire has returned:
\* one ticker request for a price; the spot and the futures 24hr ticker for
\* the volume; exchangeInfo of the spot API and, when the symbol is listed
\* there, the signed capital-config request for the deposit info.
HttpRequests(m, listed, t) ==
    CASE m = "get_spot_price" -> <<[t |-> t, endpoint |-> "market"]>>
      [] m = "get_24h_volume" ->
             <<[t |-> t, endpoint |-> "market"], [t |-> t, endpoint |-> "market"]>>
      [] OTHER ->
             <<[t |-> t, endpoint |-> "market"]>>
                 \o (IF listed THEN <<[t |-> t, endpoint |-> "capital"]>> ELSE <<>>)

AdapterInit ==
    /\ fnIn = [c \in Callers |-> "-"]
    /\ fnOut = <<>>

\* The method goes on after its acquire: if the acquire has returned, the
\* requests are sent and the method ends, otherwise the task is suspended
\* inside acquire.
AfterAcquire(c, m, listed) ==
    IF callers'[c].st = "idle"
    THEN /\ fnOut' = fnOut \o HttpRequests(m, listed, now)
         /\ fnIn' = [fnIn EXCEPT ![c] = "-"]
    ELSE /\ fnOut' = fnOut
         /\ fnIn' = [fnIn EXCEPT ![c] = m]

\* Task c calls the adapter method m.
AdapterMethod(c, m, listed) ==
    /\ fnIn[c] = "-"
    /\ RLAcquire(c, MethodKey(m), 1)
    /\ AfterAcquire(c, m, listed)

\* The sleep inside the acquire of task c's method is over.
AdapterResume(c, listed) ==
    /\ fnIn[c] # "-"
    /\ RLWake(c)
    /\ AfterAcquire(c, fnIn[c], listed)

InitAdapter == RLInit /\ AdapterInit /\ EngIdle /\ WSInit /\ RunIdle

NextAdapter ==
    \/ \E c \in Callers, m \in AdapterMethods, listed \in BOOLEAN : AdapterMethod(c, m, listed)
          /\ UNCHANGED <<engVars, wsVars, runVars>>
    \/ \E c \in Callers, listed \in BOOLEAN : AdapterResume(c, listed)
          /\ UNCHANGED <<engVars, wsVars, runVars>>
    \/ RLTick
          /\ UNCHANGED <<fnVars, engVars, wsVars, runVars>>

SpecAdapter == InitAdapter /\ [][NextAdapter]_vars

\* Requests sent to market endpoints less than the market window ago.
MarketRequestsInWindow ==
    Cardinality({i \in 1..Len(fnOut) :
                    /\ fnOut[i].endpoint = "market"
                    /\ now - fnOut[i].t < RateLimitOf("okx_market").time_window})

\* C38: every HTTP request the adapter sends is preceded by its own
\* acquire (an acquire that returns is followed by at most one request),
\* and the number of requests sent to the venue's market endpoints within
\* a window never exceeds max_requests of the venue's market key.
C38_RequestsWithinMarketLimit ==
    /\ [][Len(fnOut') <= Len(fnOut) + 1]_vars
    /\ [](MarketRequestsInWindow <= RateLimitOf("okx_market").max_requests)

(***************************************************************************)
(* Several invocations of ArbitrageEngine.stop() (arbitrage_engine.py      *)
(* 729-761): by shutdown_signal_handler (main.py 11), by the `finally` of  *)
(* run() (808) and by the close() of main() (main.py 55).  fnIn is the     *)
(* state they share (the engine flags, the WebSocket manager, the adapter  *)
(* sessions, whether run() is still inside a batch), fnOut the await each  *)
(* invocation is suspended at.                                             *)
(***************************************************************************)

Invocations == {"handler", "run", "main"}

NotCalled == [pc |-> "idle", pos |-> 0, used |-> 0]

\* The orders in which the two venues can have entered self.connections.
ConnectionOrders == {<<"binance", "okx">>, <<"okx", "binance">>}

\* The engine while run() processes a batch: both maintenance tasks have
\* connected once; a connection is open with its task receiving, or was
\* lost with its task backing off; an adapter has a session once it has
\* been used.
StopsInit ==
    /\ fnIn \in [running : {TRUE}, shutdown : {FALSE}, batch : {TRUE},
                 order : ConnectionOrders,
                 connections : [Venues -> {"open", "closed"}],
                 tasks : [Venues -> {"recv", "backoff"}],
                 session : [Adapters -> {"none", "open"}]]
    /\ \A v \in Venues : (fnIn.connections[v] = "open") <=> (fnIn.tasks[v] = "recv")
    /\ fnOut = [p \in Invocations |-> NotCalled]

\* self.tasks.clear(); self.connections.clear() at the end of
\* WebSocketManager.stop().
Cleared(st) ==
    [st EXCEPT !.connections = [v \in Venues |-> "absent"],
               !.tasks = [v \in Venues |-> "none"]]

\* The first ws_manager.stop() of the invocation has returned.  The two
\* further calls (okx_ws.stop(), _cleanup) find the empty manager and
\* jupiter.close() finds no session, none of them suspends: the invocation
\* is next suspended in cex_manager.close(), the gather of the adapters'
\* close().
AfterWsStop(st) == [st |-> st, inv |-> [pc |-> "adapters", pos |-> 0, used |-> 0]]

\* WebSocketManager.stop() from a turn of `for exchange, ws in
\* self.connections.items()`, `pos` entries having been visited, up to the
\* next suspension: in ws.close() of the next open socket, or, the tasks
\* cancelled, in gather(*self.tasks); with no task it runs to its end.
WsStopTurn(st, pos, used) ==
    LET open == {j \in (pos + 1)..Len(st.order) : st.connections[st.order[j]] = "open"}
    IN  IF open # {}
        THEN LET j == CHOOSE i \in open : \A k \in open : i <= k
             IN  [st |-> [st EXCEPT !.connections[st.order[j]] = "closed"],
                  inv |-> [pc |-> "ws_closing", pos |-> j, used |-> used]]
        ELSE IF \E v \in Venues : st.tasks[v] # "none"
        THEN [st |-> [st EXCEPT
                        !.tasks = [v \in Venues |->
                                     IF st.tasks[v] = "none" THEN "none" ELSE "done"],
                        !.connections = [v \in Venues |->
                                     IF st.connections[v] = "open"
                                     THEN "closed" ELSE st.connections[v]]],
              inv |-> [pc |-> "ws_gather", pos |-> 0, used |-> 0]]
        ELSE AfterWsStop(Cleared(st))

\* stop(): the flags are set, active_symbols is empty, binance_ws.stop()
\* enters ws_manager.stop().
StopBegins(st) ==
    WsStopTurn([st EXCEPT !.running = FALSE, !.shutdown = TRUE],
               0, Cardinality(ConnKeys(st.connections)))

\* The await the invocation is suspended at is over.  After ws.close() the
\* dict iterator raises RuntimeError when the size of self.connections has
\* changed; binance_ws.stop() and stop() have no handler.
StopGoesOn(st, inv) ==
    CASE inv.pc = "ws_closing" ->
           IF Cardinality(ConnKeys(st.connections)) # inv.used
           THEN [st |-> st, inv |-> [pc |-> "raised", pos |-> 0, used |-> 0]]
           ELSE WsStopTurn(st, inv.pos, inv.used)
      [] inv.pc = "ws_gather" -> AfterWsStop(Cleared(st))
      [] OTHER ->
           [st |-> [st EXCEPT !.session = [a \in Adapters |->
                       IF st.session[a] = "open" THEN "closed" ELSE st.session[a]]],
            inv |-> [pc |-> "returned", pos |-> 0, used |-> 0]]

\* An invocation begins: the handler's at any time, that of run() when
\* run() has left its loop, that of main() when run() has ended.
StopCalled(p) ==
    /\ fnOut[p].pc = "idle"
    /\ p = "run" => ~fnIn.batch
    /\ p = "main" => fnOut["run"].pc \in {"returned", "raised"}
    /\ LET r == StopBegins(fnIn)
       IN  fnIn' = r.st /\ fnOut' = [fnOut EXCEPT ![p] = r.inv]

StopResumes(p) ==
    /\ fnOut[p].pc \in {"ws_closing", "ws_gather", "adapters"}
    /\ LET r == StopGoesOn(fnIn, fnOut[p])
       IN  fnIn' = r.st /\ fnOut' = [fnOut EXCEPT ![p] = r.inv]

\* The batch being processed calls _get_session() of an adapter, which
\* creates a session when there is none or it was closed.
BatchGetSession(a) ==
    /\ fnIn.batch
    /\ fnIn.session[a] # "open"
    /\ fnIn' = [fnIn EXCEPT !.session[a] = "open"]
    /\ UNCHANGED fnOut

\* process_token_batch returns and run() finds the shutdown flag set.
BatchOver ==
    /\ fnIn.batch /\ fnIn.shutdown
    /\ fnIn' = [fnIn EXCEPT !.batch = FALSE]
    /\ UNCHANGED fnOut

InitStops == RLInit /\ StopsInit /\ EngIdle /\ WSInit /\ RunIdle

NextStops ==
    \/ \E p \in Invocations : StopCalled(p)
          /\ UNCHANGED <<rlVars, engVars, wsVars, runVars>>
    \/ \E p \in Invocations : StopResumes(p)
          /\ UNCHANGED <<rlVars, engVars, wsVars, runVars>>
    \/ \E a \in Adapters : BatchGetSession(a)
          /\ UNCHANGED <<rlVars, engVars, wsVars, runVars>>
    \/ BatchOver
          /\ UNCHANGED <<rlVars, engVars, wsVars, runVars>>

SpecStops == InitStops /\ [][NextStops]_vars

\* The engine as one stop() leaves it: flags set, no connection, no task,
\* no open session.
AfterOneStop ==
    /\ ~fnIn.running /\ fnIn.shutdown
    /\ \A v \in Venues : fnIn.connections[v] = "absent" /\ fnIn.tasks[v] = "none"
    /\ \A a \in Adapters : fnIn.session[a] # "open"

\* C40: stop() may be invoked several times, also concurrently: no
\* invocation ends with an error, and once all of them have returned no
\* WebSocket connection and no adapter session is open and the state is
\* the one a single invocation leaves.
C40_StopInvokedSeveralTimes ==
    /\ \A p \in Invocations : fnOut[p].pc # "raised"
    /\ (\A p \in Invocations : fnOut[p].pc = "returned") => AfterOneStop

====
